---- MODULE Spec2Model ----
(***************************************************************************)
(* Matching and dialog-lifecycle core of the anonymous chat bot.           *)
(*                                                                         *)
(* Fast store (Redis): waiting queues, match locks, active-dialog          *)
(* pointers, last-partner cooldown keys, pending-rating bundles.           *)
(* Durable store (PostgreSQL): users, dialogs, active_dialogs.             *)
(*                                                                         *)
(* A handler is cut into steps at its awaits on the stores.  Awaits that   *)
(* follow each other are taken as one step where a step of another         *)
(* handler in between yields nothing that the same step before or after    *)
(* does not: the read of the last_partner key with the SET NX of the       *)
(* searcher's lock, the read of the searcher's row with the dequeue, the   *)
(* reads of the validation of a candidate with the push-back and lock      *)
(* release they decide, the statements of one transaction, the commands    *)
(* of one pipeline.  The reservation script is one step, as the fast       *)
(* store runs it.  A user is identified by one number: User.id and         *)
(* User.telegram_id are both unique keys of the same row.                  *)
(***************************************************************************)
EXTENDS Integers, Sequences, FiniteSets, TLC

Users == {1, 2, 3}

NoUser == 0

NoDialog == 0

\* Stands for max_attempts of try_match (50 in the code): the number of
\* reservation rounds per queue group.
MaxAttempts == 2

\* Number of try_match invocations of one user in a behaviour.
MaxSearches == 2

\* The averages of ratings are rationals; they are kept as integers in units
\* of 1/Scale of a point.  Scale is a multiple of every number of rows an
\* average is taken over here (at most MaxRatings), so the division is exact.
Scale == 8 * 9 * 5 * 7 * 11 * 13

\* Number of ratings rows in a behaviour.
MaxRatings == 14

\* Number of earlier dialogs of one pair inside the 7 days.
MaxMeetings == 5

VARIABLES
    users,                 \* durable: users rows
    dialogs,               \* durable: dialogs rows, the id is the index
    active_dialogs,        \* durable: active_dialogs rows, user_id -> dialog_id (0: no row)
    clock,                 \* datetime.now() as seen by the durable writes
    queues,                \* fast: the waiting lists, head = left end
    lock_match,            \* fast: lock:match:<u> is set
    lock_owner,            \* history: the searcher whose try_match set lock:match:<u>
                           \* (0: not set); the key itself holds "1" for everyone
    active_dialog,         \* fast: active_dialog:<u> -> dialog id (0: no key)
    last_partner,          \* fast: last_partner:<u> -> user (0: no key)
    cooldown,              \* the dialogs whose 10 minutes after the finish have not passed
    pending_rating,        \* fast: the pending-rating bundle of <u>
    appearance_rating_required,  \* fast: the <<u, dialog>> whose key is set
    pc,                    \* try_match of <u>: position
    tm,                    \* try_match of <u>: local variables
    searches,              \* try_match invocations of <u> so far
    fpc,                   \* dialog_finish_text of <u>: position
    fin,                   \* dialog_finish_text of <u>: local variables
    ratings,               \* durable: ratings rows in the order of their insertion
    rpc,                   \* rating_text_input of <u>: position
    rt,                    \* rating_text_input of <u>: local variables
    resumed,               \* what <u> was shown last by the resume after a rating or by
                           \* cancel_search: the profile or the search
    alerts,                \* the alerts sent to the operators
    photo,                 \* _background_photo_pipeline of the photo of <u>: position, local variables
    dialog_sender_human_detected  \* fast: the <<dialog, sender>> whose key is set

vars == <<users, dialogs, active_dialogs, clock, queues, lock_match, lock_owner, active_dialog,
          last_partner, cooldown, pending_rating, appearance_rating_required,
          pc, tm, searches, fpc, fin, ratings, rpc, rt, resumed, alerts,
          photo, dialog_sender_human_detected>>

durable == <<users, dialogs, active_dialogs, clock>>

tmVars == <<pc, tm, searches>>

finVars == <<fpc, fin>>

rateVars == <<ratings, rpc, rt, resumed, alerts>>

relayVars == <<photo, dialog_sender_human_detected>>

----------------------------------------------------------------------------
(* app/redis/keys.py *)

queue_city(city) == "queue:city:" \o city

queue_global == "queue:global"

queue_premium_city(city) == "queue:premium:city:" \o city

queue_premium_global == "queue:premium:global"

Cities == {"c"}

QueueNames ==
    {queue_global, queue_premium_global}
        \cup {queue_city(c) : c \in Cities} \cup {queue_premium_city(c) : c \in Cities}

----------------------------------------------------------------------------
(* Redis list commands *)

\* LREM q 0 uid
LRem(s, uid) == SelectSeq(s, LAMBDA x : x # uid)

\* LPUSH q uid
LPush(s, uid) == <<uid>> \o s

\* RPOP q: the list that is left
RPopRest(s) == SubSeq(s, 1, Len(s) - 1)

\* RPOP q: the element popped
RPopElem(s) == s[Len(s)]

InQueue(Q, q, uid) == \E i \in 1..Len(Q[q]) : Q[q][i] = uid

InSomeQueue(Q, uid) == \E q \in QueueNames : InQueue(Q, q, uid)

----------------------------------------------------------------------------
(* MatchmakingService helpers *)

_select_queue(city, premium) ==
    IF premium
    THEN (IF city # "" THEN queue_premium_city(city) ELSE queue_premium_global)
    ELSE (IF city # "" THEN queue_city(city) ELSE queue_global)

\* lines 290-301, as a bug would have it: the plain queue of a group before
\* its premium queue
_queues_for_user_PlainFirst(city, premium) ==
    IF premium
    THEN IF city # ""
         THEN << <<queue_city(city), queue_premium_city(city)>>,
                 <<queue_global, queue_premium_global>> >>
         ELSE << <<>>, <<queue_global, queue_premium_global>> >>
    ELSE IF city # ""
         THEN << <<queue_city(city)>>, <<queue_global>> >>
         ELSE << <<>>, <<queue_global>> >>

\* <<city_queues, global_queues>>
_queues_for_user(city, premium) ==
    IF premium
    THEN IF city # ""
         THEN << <<queue_premium_city(city), queue_city(city)>>,
                 <<queue_premium_global, queue_global>> >>
         ELSE << <<>>, <<queue_premium_global, queue_global>> >>
    ELSE IF city # ""
         THEN << <<queue_city(city)>>, <<queue_global>> >>
         ELSE << <<>>, <<queue_global>> >>

enqueue(Q, uid, city, premium) ==
    LET q  == _select_queue(city, premium)
        Q1 == [Q EXCEPT ![q] = LPush(LRem(@, uid), uid)]
        qg == _select_queue("", premium)
    IN  IF city # "" THEN [Q1 EXCEPT ![qg] = LPush(LRem(@, uid), uid)] ELSE Q1

dequeue_from_all(Q, uid, city) ==
    LET qs == {queue_global, queue_premium_global}
                \cup (IF city # "" THEN {queue_city(city), queue_premium_city(city)} ELSE {})
    IN  [q \in QueueNames |-> IF q \in qs THEN LRem(Q[q], uid) ELSE Q[q]]

----------------------------------------------------------------------------
(* MATCH_RESERVE_LUA *)

\* the SET without NX: the key is set whether or not it exists
LuaLockCandidate_NoNX(L, candidate) == TRUE

\* SET lock:match:<candidate> "1" NX PX ttl: TRUE when the key was set
LuaLockCandidate(L, candidate) == ~L[candidate]

\* lines 31, 33, 38, as a bug would have them: the entry is not put back
LuaPushBack_Dropped(s, candidate) == s

\* lines 31, 33, 38: LPUSH q candidate
LuaPushBack(s, candidate) == LPush(s, candidate)

\* line 30, as a bug would have it: the searcher is taken like anyone else
IsMe_Never(candidate, me) == FALSE

\* line 30: candidate == me
IsMe(candidate, me) == candidate = me

RECURSIVE LuaQueues(_, _, _, _, _, _)
LuaQueues(me, argv, i, Q, L, AD) ==
    IF i > Len(argv)
    THEN [status |-> "NONE", candidate |-> NoUser, q |-> "", queues |-> Q, locks |-> L]
    ELSE LET q == argv[i] IN
         IF Q[q] = <<>>
         THEN LuaQueues(me, argv, i + 1, Q, L, AD)
         ELSE LET candidate == RPopElem(Q[q])
                  popped    == [Q EXCEPT ![q] = RPopRest(@)]
                  pushed    == [popped EXCEPT ![q] = LuaPushBack(@, candidate)]
              IN  IF IsMe(candidate, me)
                  THEN LuaQueues(me, argv, i + 1, pushed, L, AD)
                  ELSE IF AD[candidate] # NoDialog
                  THEN LuaQueues(me, argv, i + 1, pushed, L, AD)
                  ELSE IF LuaLockCandidate(L, candidate)
                  THEN [status |-> "OK", candidate |-> candidate, q |-> q,
                        queues |-> popped, locks |-> [L EXCEPT ![candidate] = TRUE]]
                  ELSE LuaQueues(me, argv, i + 1, pushed, L, AD)

MATCH_RESERVE_LUA(me, from_queues, Q, L, AD) ==
    IF AD[me] # NoDialog
    THEN [status |-> "ACTIVE", candidate |-> NoUser, q |-> "", queues |-> Q, locks |-> L]
    ELSE LuaQueues(me, from_queues, 1, Q, L, AD)

----------------------------------------------------------------------------
(* MatchmakingService.try_match *)

TmInit ==
    [last_partner_tg   |-> NoUser,
     group             |-> "",
     attempt           |-> 0,
     candidate_tg_id   |-> NoUser,
     source_queue      |-> "",
     partner_lock_key  |-> NoUser,
     best_candidate_tg |-> NoUser,
     best_rating       |-> -1,
     partner_info      |-> NoUser,
     dialog_id         |-> NoDialog,
     raised            |-> FALSE]

\* MatchResult is a frozen dataclass with slots and the two fields dialog_id
\* and partner_user_id; _attempt_match constructs it with the third keyword
\* _temp_partner_id, which its __init__ does not take: the call raises
\* TypeError, and the exception leaves try_match through its finally block.
MatchResult(t, partner_tg) ==
    <<"finally", [t EXCEPT !.partner_info = partner_tg, !.raised = TRUE]>>

\* _attempt_match returned None: the next group, or the enqueue of line 224
ReturnNone(t) ==
    IF t.group = "city"
    THEN <<"attempt", [t EXCEPT !.group = "global", !.attempt = 0,
                                !.best_candidate_tg = NoUser, !.best_rating = -1]>>
    ELSE <<"conclude", t>>

\* the for loop of _attempt_match is left (break, or max_attempts rounds done)
AfterLoop(t) ==
    IF t.best_candidate_tg # NoUser
    THEN MatchResult(t, t.best_candidate_tg)
    ELSE ReturnNone(t)

\* continue: the next round of the for loop
Continue(t) ==
    LET t1 == [t EXCEPT !.attempt = @ + 1, !.candidate_tg_id = NoUser, !.source_queue = ""]
    IN  IF t1.attempt < MaxAttempts THEN <<"attempt", t1>> ELSE AfterLoop(t1)

\* line 104, as a bug would have it: SET without NX always succeeds
got_lock_NoNX(L, s) == TRUE

\* line 104: SET lock:match:<s> "1" NX PX 4000
got_lock(L, s) == ~L[s]

\* lines 92-106: read last_partner, SET NX of the searcher's lock, return
\* None when it is held
Enter(s) ==
    /\ searches[s] < MaxSearches
    /\ searches' = [searches EXCEPT ![s] = @ + 1]
    /\ IF ~got_lock(lock_match, s)
       THEN UNCHANGED <<pc, tm, lock_match, lock_owner>>
       ELSE /\ lock_match' = [lock_match EXCEPT ![s] = TRUE]
            /\ lock_owner' = [lock_owner EXCEPT ![s] = s]
            /\ pc' = [pc EXCEPT ![s] = "check"]
            /\ tm' = [tm EXCEPT ![s] = [TmInit EXCEPT !.last_partner_tg = last_partner[s]]]

\* try_match of a user for whom no try_match is running
try_match(s) == pc[s] = "idle" /\ Enter(s)

\* search_start while a try_match of the same user is running and holds
\* the searcher's lock.  (A second try_match that starts after the lock of
\* the running one has expired would run beside it; one try_match per user
\* runs at a time here.)
TM_Again(s) ==
    /\ pc[s] # "idle"
    /\ lock_match[s]
    /\ ~users[s].is_banned
    /\ Enter(s)
    /\ UNCHANGED <<durable, queues, active_dialog, last_partner, cooldown,
                   pending_rating, appearance_rating_required, finVars, relayVars>>
    /\ UNCHANGED rateVars

\* search_start: a banned user is refused, the others call try_match
TM_Begin(s) ==
    /\ ~users[s].is_banned
    /\ try_match(s)
    /\ UNCHANGED <<durable, queues, active_dialog, last_partner, cooldown,
                   pending_rating, appearance_rating_required, finVars, relayVars>>
    /\ UNCHANGED rateVars

\* handlers/search.py, cancel_search: the user is removed from the four
\* queues of their city in one pipeline, and the profile is shown
Cancel_Search(u) ==
    /\ queues' = dequeue_from_all(queues, u, users[u].city)
    /\ resumed' = [resumed EXCEPT ![u] = "profile"]
    /\ UNCHANGED <<durable, lock_match, lock_owner, active_dialog, last_partner, cooldown,
                   pending_rating, appearance_rating_required, tmVars, finVars, relayVars,
                   ratings, rpc, rt, alerts>>

\* lines 109-114: the searcher's ActiveDialog row, dequeue_from_all
TM_Check(s) ==
    /\ pc[s] = "check"
    /\ IF active_dialogs[s] # NoDialog
       THEN /\ pc' = [pc EXCEPT ![s] = "finally"]
            /\ UNCHANGED <<tm, queues>>
       ELSE /\ queues' = dequeue_from_all(queues, s, users[s].city)
            /\ pc' = [pc EXCEPT ![s] = "attempt"]
            /\ tm' = [tm EXCEPT ![s].group =
                        IF users[s].city # "" /\ _queues_for_user(users[s].city, users[s].premium)[1] # <<>>
                        THEN "city" ELSE "global"]
    /\ UNCHANGED <<durable, lock_match, lock_owner, active_dialog, last_partner, cooldown,
                   pending_rating, appearance_rating_required, searches, finVars, relayVars>>
    /\ UNCHANGED rateVars

FromQueues(s) ==
    LET qs == _queues_for_user(users[s].city, users[s].premium)
    IN  IF tm[s].group = "city" THEN qs[1] ELSE qs[2]

\* lines 141-152: the searcher's active-dialog pointer, _try_reserve
TM_Reserve(s) ==
    /\ pc[s] = "attempt"
    /\ IF active_dialog[s] # NoDialog
       THEN LET nx == ReturnNone(tm[s]) IN
            /\ pc' = [pc EXCEPT ![s] = nx[1]]
            /\ tm' = [tm EXCEPT ![s] = nx[2]]
            /\ UNCHANGED <<queues, lock_match, lock_owner>>
       ELSE LET reserved == MATCH_RESERVE_LUA(s, FromQueues(s), queues, lock_match, active_dialog) IN
            /\ queues' = reserved.queues
            /\ lock_match' = reserved.locks
            /\ lock_owner' = IF reserved.status = "OK"
                             THEN [lock_owner EXCEPT ![reserved.candidate] = s]
                             ELSE lock_owner
            /\ IF reserved.status = "OK"
               THEN /\ pc' = [pc EXCEPT ![s] = "validate"]
                    /\ tm' = [tm EXCEPT ![s].candidate_tg_id = reserved.candidate,
                                        ![s].source_queue = reserved.q,
                                        ![s].partner_lock_key = reserved.candidate]
               ELSE LET nx == AfterLoop(tm[s]) IN
                    /\ pc' = [pc EXCEPT ![s] = nx[1]]
                    /\ tm' = [tm EXCEPT ![s] = nx[2]]
    /\ UNCHANGED <<durable, active_dialog, last_partner, cooldown,
                   pending_rating, appearance_rating_required, searches, finVars, relayVars>>
    /\ UNCHANGED rateVars

\* lines 156, 180, 186, 197, 205, as a bug would have them: nothing is pushed
Requeue_Dropped(Q, source_queue, candidate_tg_id) == Q

\* lines 156, 180, 186, 197, 205, as a bug would have them: RPUSH, the
\* candidate is put at the end from which the script pops
Requeue_AtTail(Q, source_queue, candidate_tg_id) ==
    [Q EXCEPT ![source_queue] = Append(@, candidate_tg_id)]

\* lines 156, 180, 186, 197, 205: LPUSH source_queue <candidate>
Requeue(Q, source_queue, candidate_tg_id) ==
    [Q EXCEPT ![source_queue] = LPush(@, candidate_tg_id)]

\* lines 155-189 without the durable check of lines 179-183
Refused_NoRowCheck(s) ==
    LET t == tm[s]
        c == t.candidate_tg_id
    IN  IF t.last_partner_tg # NoUser /\ c = t.last_partner_tg THEN "last_partner"
        ELSE IF users[c].is_banned THEN "banned"
        ELSE IF active_dialog[c] # NoDialog THEN "active_pointer"
        ELSE ""

\* lines 155-189: why the reserved candidate is refused ("" when it is not)
Refused(s) ==
    LET t == tm[s]
        c == t.candidate_tg_id
    IN  IF t.last_partner_tg # NoUser /\ c = t.last_partner_tg THEN "last_partner"
        ELSE IF users[c].is_banned THEN "banned"
        ELSE IF active_dialogs[c] # NoDialog THEN "active_row"
        ELSE IF active_dialog[c] # NoDialog THEN "active_pointer"
        ELSE ""

\* line 194, as a bug would have it: the candidate seen last is kept
Better_Always(cand_rating, best_rating) == TRUE

\* line 194: cand_rating > best_rating
Better(cand_rating, best_rating) == cand_rating > best_rating

\* lines 154-210: validation of the reserved candidate
TM_Validate(s) ==
    /\ pc[s] = "validate"
    /\ LET t  == tm[s]
           c  == t.candidate_tg_id
           sq == t.source_queue
           why == Refused(s)
           released == [t EXCEPT !.partner_lock_key = NoUser]
       IN
       IF why = "banned"
       THEN \* lines 172-175: lock deleted, the candidate is not pushed back
            /\ lock_match' = [lock_match EXCEPT ![c] = FALSE]
            /\ lock_owner' = [lock_owner EXCEPT ![c] = NoUser]
            /\ pc' = [pc EXCEPT ![s] = Continue(released)[1]]
            /\ tm' = [tm EXCEPT ![s] = Continue(released)[2]]
            /\ UNCHANGED queues
       ELSE IF why # ""
       THEN /\ queues' = Requeue(queues, sq, c)
            /\ lock_match' = [lock_match EXCEPT ![c] = FALSE]
            /\ lock_owner' = [lock_owner EXCEPT ![c] = NoUser]
            /\ pc' = [pc EXCEPT ![s] = Continue(released)[1]]
            /\ tm' = [tm EXCEPT ![s] = Continue(released)[2]]
       ELSE IF users[s].premium
       THEN IF Better(users[c].season_rating_chat, t.best_rating)
            THEN LET kept == [t EXCEPT !.best_candidate_tg = c,
                                       !.best_rating = users[c].season_rating_chat]
                 IN  /\ IF t.best_candidate_tg # NoUser
                        THEN /\ queues' = Requeue(queues, sq, t.best_candidate_tg)
                             /\ lock_match' = [lock_match EXCEPT ![t.best_candidate_tg] = FALSE]
                             /\ lock_owner' = [lock_owner EXCEPT ![t.best_candidate_tg] = NoUser]
                        ELSE UNCHANGED <<queues, lock_match, lock_owner>>
                     /\ pc' = [pc EXCEPT ![s] = Continue(kept)[1]]
                     /\ tm' = [tm EXCEPT ![s] = Continue(kept)[2]]
            ELSE /\ queues' = Requeue(queues, sq, c)
                 /\ lock_match' = [lock_match EXCEPT ![c] = FALSE]
                 /\ lock_owner' = [lock_owner EXCEPT ![c] = NoUser]
                 /\ pc' = [pc EXCEPT ![s] = Continue(released)[1]]
                 /\ tm' = [tm EXCEPT ![s] = Continue(released)[2]]
       ELSE /\ pc' = [pc EXCEPT ![s] = MatchResult(t, c)[1]]
            /\ tm' = [tm EXCEPT ![s] = MatchResult(t, c)[2]]
            /\ UNCHANGED <<queues, lock_match, lock_owner>>
    /\ UNCHANGED <<durable, active_dialog, last_partner, cooldown,
                   pending_rating, appearance_rating_required, searches, finVars, relayVars>>
    /\ UNCHANGED rateVars

NoPending == [dialog |-> NoDialog, has_photos |-> "", partner |-> NoUser, action |-> "", step |-> ""]

\* lines 223-281: with no partner the searcher is enqueued; with a partner the
\* Dialog row and the two ActiveDialog rows are committed in one transaction
\* (IntegrityError on an existing active_dialogs primary key: rollback) and
\* the pointers are mirrored into the fast store.
TM_Conclude(s) ==
    /\ pc[s] = "conclude"
    /\ LET p == tm[s].partner_info
           d == Len(dialogs) + 1
       IN
       IF p = NoUser
       THEN /\ queues' = enqueue(queues, s, users[s].city, users[s].premium)
            /\ UNCHANGED <<durable, active_dialog, pending_rating,
                           appearance_rating_required>>
       ELSE IF active_dialogs[s] # NoDialog \/ active_dialogs[p] # NoDialog
       THEN UNCHANGED <<durable, queues, active_dialog, pending_rating,
                        appearance_rating_required>>
       ELSE /\ dialogs' = Append(dialogs, [user1_id |-> s, user2_id |-> p,
                                           status |-> "active", finished_at |-> 0])
            /\ active_dialogs' = [active_dialogs EXCEPT ![s] = d, ![p] = d]
            /\ active_dialog' = [active_dialog EXCEPT ![s] = d, ![p] = d]
            /\ pending_rating' = [pending_rating EXCEPT ![s] = NoPending, ![p] = NoPending]
            /\ appearance_rating_required' = appearance_rating_required \ {<<s, d>>, <<p, d>>}
            /\ UNCHANGED <<users, clock, queues>>
    /\ pc' = [pc EXCEPT ![s] = "finally"]
    /\ tm' = [tm EXCEPT ![s].dialog_id =
                IF tm[s].partner_info # NoUser /\ active_dialogs[s] = NoDialog
                       /\ active_dialogs[tm[s].partner_info] = NoDialog
                THEN Len(dialogs) + 1 ELSE NoDialog]
    /\ UNCHANGED <<lock_match, lock_owner, last_partner, cooldown, searches, finVars, relayVars>>
    /\ UNCHANGED rateVars

\* lines 282-288: the finally block
TM_Finally(s) ==
    /\ pc[s] = "finally"
    /\ lock_match' = [u \in Users |->
                        IF u = s \/ u = tm[s].partner_lock_key THEN FALSE ELSE lock_match[u]]
    /\ lock_owner' = [u \in Users |->
                        IF u = s \/ u = tm[s].partner_lock_key THEN NoUser ELSE lock_owner[u]]
    /\ pc' = [pc EXCEPT ![s] = "idle"]
    /\ tm' = [tm EXCEPT ![s] = TmInit]
    /\ UNCHANGED <<durable, queues, active_dialog, last_partner, cooldown,
                   pending_rating, appearance_rating_required, searches, finVars, relayVars>>
    /\ UNCHANGED rateVars

----------------------------------------------------------------------------
(* handlers/dialog.py: dialog_finish_text, _finish_and_request_rating *)

FinInit == [action |-> "", dialog_id |-> NoDialog, status |-> "", tg1 |-> NoUser, tg2 |-> NoUser]

\* lines 256-285: the active-dialog pointer, the load of the Dialog row into
\* the session.  The rate-limit key and lock:finish_dialog:<u> (SET NX, 1 s
\* and 4 s) only refuse a second dialog_finish_text of the same user while
\* they last, and a refused call changes no other key and no row: one user
\* runs one dialog_finish_text at a time here, so they are left out.
Fin_Start(u, action) ==
    /\ fpc[u] = "idle"
    /\ active_dialog[u] # NoDialog
    /\ fpc' = [fpc EXCEPT ![u] = "db"]
    /\ fin' = [fin EXCEPT ![u] =
                [FinInit EXCEPT !.action = action,
                                !.dialog_id = active_dialog[u],
                                !.status = dialogs[active_dialog[u]].status]]
    /\ UNCHANGED <<durable, queues, lock_match, lock_owner, active_dialog, last_partner, cooldown,
                   pending_rating, appearance_rating_required, tmVars, relayVars>>
    /\ UNCHANGED rateVars

\* line 167, as a bug would have it: only the row of the first participant
DeleteActiveRows_User1Only(AD, row) ==
    [x \in Users |-> IF x = row.user1_id THEN NoDialog ELSE AD[x]]

\* line 167: delete(ActiveDialog).where(user_id IN (user1_id, user2_id))
DeleteActiveRows(AD, row) ==
    [x \in Users |-> IF x \in {row.user1_id, row.user2_id} THEN NoDialog ELSE AD[x]]

\* lines 143-170: the participants' telegram ids in the order the select
\* returns them, the status and finish time written when the loaded row was
\* not finished, the ActiveDialog rows of both users deleted, commit
Fin_DB(u) ==
    /\ fpc[u] = "db"
    /\ LET d   == fin[u].dialog_id
           row == dialogs[d]
       IN
       /\ \E t1 \in {row.user1_id, row.user2_id} :
              fin' = [fin EXCEPT ![u].tg1 = t1,
                                 ![u].tg2 = CHOOSE t2 \in {row.user1_id, row.user2_id} : t2 # t1]
       /\ IF fin[u].status # "finished"
          THEN /\ dialogs' = [dialogs EXCEPT ![d].status = "finished", ![d].finished_at = clock + 1]
               /\ clock' = clock + 1
          ELSE UNCHANGED <<dialogs, clock>>
       /\ cooldown' = IF row.status # "finished" /\ fin[u].status # "finished"
                      THEN cooldown \cup {d} ELSE cooldown
       /\ active_dialogs' = DeleteActiveRows(active_dialogs, row)
    /\ fpc' = [fpc EXCEPT ![u] = "redis"]
    /\ UNCHANGED <<users, queues, lock_match, lock_owner, active_dialog, last_partner,
                   pending_rating, appearance_rating_required,
                   tmVars, relayVars>>
    /\ UNCHANGED rateVars

\* lines 143-170 when the commit raises: rollback, the exception is logged
\* and the handler goes on to the fast store
Fin_DBFailed(u) ==
    /\ fpc[u] = "db"
    /\ LET row == dialogs[fin[u].dialog_id]
       IN  \E t1 \in {row.user1_id, row.user2_id} :
               fin' = [fin EXCEPT ![u].tg1 = t1,
                                  ![u].tg2 = CHOOSE t2 \in {row.user1_id, row.user2_id} : t2 # t1]
    /\ fpc' = [fpc EXCEPT ![u] = "redis"]
    /\ UNCHANGED <<durable, queues, lock_match, lock_owner, active_dialog, last_partner, cooldown,
                   pending_rating, appearance_rating_required, tmVars, relayVars>>
    /\ UNCHANGED rateVars

\* lines 172-223: the appearance flags read, then one pipeline: pointers
\* deleted, bundles, last_partner keys and resume actions set
Fin_Redis(u) ==
    /\ fpc[u] = "redis"
    /\ LET f  == fin[u]
           d  == f.dialog_id
           a1 == IF f.action = "skip" THEN "skip" ELSE IF u = f.tg1 THEN "end" ELSE "skip"
           a2 == IF f.action = "skip" THEN "skip" ELSE IF u = f.tg1 THEN "skip" ELSE "end"
           has_human(t) == IF <<t, d>> \in appearance_rating_required THEN "1" ELSE "0"
           bundle(t, p, a) == [dialog |-> d, has_photos |-> has_human(t), partner |-> p,
                               action |-> a, step |-> "chat"]
       IN
       /\ active_dialog' = [active_dialog EXCEPT ![f.tg1] = NoDialog, ![f.tg2] = NoDialog]
       /\ pending_rating' = [pending_rating EXCEPT ![f.tg1] = bundle(f.tg1, f.tg2, a1),
                                                   ![f.tg2] = bundle(f.tg2, f.tg1, a2)]
       /\ last_partner' = [last_partner EXCEPT ![f.tg1] = f.tg2, ![f.tg2] = f.tg1]
    /\ fpc' = [fpc EXCEPT ![u] = "idle"]
    /\ fin' = [fin EXCEPT ![u] = FinInit]
    /\ UNCHANGED <<durable, queues, lock_match, lock_owner, cooldown, appearance_rating_required,
                   tmVars, relayVars>>
    /\ UNCHANGED rateVars

----------------------------------------------------------------------------
(* handlers/dialog.py: relay_messages, _background_photo_pipeline *)

PhotoInit == [stage |-> "idle", dialog_id |-> NoDialog, partner_tg |-> NoUser]

\* line 472, as a bug would have it: the key of the sender
FlagKey_OfSender(sender, partner_tg, dialog_id) == <<sender, dialog_id>>

\* line 472: appearance_rating_required:<partner_tg>:<dialog_id>
FlagKey(sender, partner_tg, dialog_id) == <<partner_tg, dialog_id>>

\* lines 295-352 and 386-548: a photo of u.  The dialog is the one of the
\* pointer of u; the partner is read from dialog_partner_tg:<dialog>:<u>
\* or, when that key is missing, from the Dialog row, and the pointer of u
\* is deleted when that row is not active.  The photo is sent on and its
\* pipeline is scheduled; one pipeline per sender runs at a time here.
Relay_Photo(u) ==
    /\ photo[u].stage = "idle"
    /\ active_dialog[u] # NoDialog
    /\ LET d   == active_dialog[u]
           row == dialogs[d]
           p   == IF row.user1_id = u THEN row.user2_id ELSE row.user1_id
       IN  \E key_found \in BOOLEAN :
               IF ~key_found /\ row.status # "active"
               THEN /\ active_dialog' = [active_dialog EXCEPT ![u] = NoDialog]
                    /\ UNCHANGED photo
               ELSE /\ photo' = [photo EXCEPT ![u] = [stage |-> "pre", dialog_id |-> d,
                                                      partner_tg |-> p]]
                    /\ UNCHANGED active_dialog
    /\ UNCHANGED <<durable, queues, lock_match, lock_owner, last_partner, cooldown, pending_rating,
                   appearance_rating_required, dialog_sender_human_detected,
                   tmVars, finVars>>
    /\ UNCHANGED rateVars

\* lines 408-428: the flag of the partner and the detection key of the
\* sender are read; with either set the photo is not examined
Photo_Pre(u) ==
    /\ photo[u].stage = "pre"
    /\ LET f == photo[u]
           already_required == <<f.partner_tg, f.dialog_id>> \in appearance_rating_required
           already_detected == <<f.dialog_id, u>> \in dialog_sender_human_detected
       IN  photo' = [photo EXCEPT ![u] =
                        IF already_required \/ already_detected
                        THEN PhotoInit ELSE [f EXCEPT !.stage = "detect"]]
    /\ UNCHANGED <<durable, queues, lock_match, lock_owner, active_dialog, last_partner, cooldown,
                   pending_rating, appearance_rating_required,
                   dialog_sender_human_detected, tmVars, finVars>>
    /\ UNCHANGED rateVars

\* lines 430-457: the verdict of the vision service (FALSE also on a
\* timeout); on a human the detection key of the sender is set
Photo_Detect(u) ==
    /\ photo[u].stage = "detect"
    /\ \E is_human \in BOOLEAN :
          IF is_human
          THEN /\ dialog_sender_human_detected' =
                      dialog_sender_human_detected \cup {<<photo[u].dialog_id, u>>}
               /\ photo' = [photo EXCEPT ![u].stage = "check"]
          ELSE /\ photo' = [photo EXCEPT ![u] = PhotoInit]
               /\ UNCHANGED dialog_sender_human_detected
    /\ UNCHANGED <<durable, queues, lock_match, lock_owner, active_dialog, last_partner, cooldown,
                   pending_rating, appearance_rating_required, tmVars, finVars>>
    /\ UNCHANGED rateVars

\* lines 459-471: the pointers of sender and partner are read; the flag is
\* set only when both still name the dialog of the photo
Photo_Check(u) ==
    /\ photo[u].stage = "check"
    /\ LET f == photo[u]
       IN  photo' = [photo EXCEPT ![u] =
                        IF active_dialog[u] = f.dialog_id /\ active_dialog[f.partner_tg] = f.dialog_id
                        THEN [f EXCEPT !.stage = "flag"] ELSE PhotoInit]
    /\ UNCHANGED <<durable, queues, lock_match, lock_owner, active_dialog, last_partner, cooldown,
                   pending_rating, appearance_rating_required,
                   dialog_sender_human_detected, tmVars, finVars>>
    /\ UNCHANGED rateVars

\* line 472: the flag of the partner is set
Photo_Flag(u) ==
    /\ photo[u].stage = "flag"
    /\ appearance_rating_required' =
          appearance_rating_required
              \cup {FlagKey(u, photo[u].partner_tg, photo[u].dialog_id)}
    /\ photo' = [photo EXCEPT ![u] = PhotoInit]
    /\ UNCHANGED <<durable, queues, lock_match, lock_owner, active_dialog, last_partner, cooldown,
                   pending_rating, dialog_sender_human_detected, tmVars, finVars>>
    /\ UNCHANGED rateVars

----------------------------------------------------------------------------
(* Sums and averages *)

RECURSIVE Sum(_)
Sum(s) == IF s = <<>> THEN 0 ELSE s[1] + Sum(Tail(s))

\* func.avg over the values s, "or 0.0" for no row, in units of 1/Scale
Avg(s) == IF s = <<>> THEN 0 ELSE (Sum(s) * Scale) \div Len(s)

\* the last n elements of s, all of them when there are fewer
LastN(s, n) == IF Len(s) <= n THEN s ELSE SubSeq(s, Len(s) - n + 1, Len(s))

----------------------------------------------------------------------------
(* services/rating.py: RatingService *)

\* rule (a), line 43: the dialogs of one pair in the window
MeetsLimit == 3

\* rule (b), line 58: the number of mutual chat ratings from which the share
\* of high ones is looked at
MutualMin == 10

\* rule (b), line 70: a rating of this value or more is a high one
HighValue == 9

\* timedelta(days=7), line 30; created_at and the clock count days
Week == 7

\* Stands for limit(20) of the last-20 averages.
RollingWindow == 3

\* lines 32-42: the dialogs of the pair created in the window
Meets(D, from_user_id, to_user_id, since) ==
    Cardinality({d \in 1..Len(D) :
                    /\ D[d].created_at >= since
                    /\ D[d].user1_id \in {from_user_id, to_user_id}
                    /\ D[d].user2_id \in {from_user_id, to_user_id}})

\* lines 46-57: the chat ratings of the pair on each other stored in the window
Mutual(R, from_user_id, to_user_id, since) ==
    {i \in 1..Len(R) :
        /\ R[i].created_at >= since
        /\ R[i].rating_type = "chat"
        /\ R[i].from_user_id \in {from_user_id, to_user_id}
        /\ R[i].to_user_id \in {from_user_id, to_user_id}}

\* line 70: mutual_high / mutual_total >= 0.8
MutualHighRatio(mutual_high, mutual_total) == 10 * mutual_high >= 8 * mutual_total

\* line 43, as a bug would have it: the pair never met too often
PairMetTooOften_Never(meets) == FALSE

\* line 43, as a bug would have it: invalid from the fifth dialog on
PairMetTooOften_FromFifth(meets) == meets > MeetsLimit + 1

\* line 43
PairMetTooOften(meets) == meets > MeetsLimit

\* lines 22-75; the rows are those stored before the rating that is decided on
decide_seasonal_validity(D, R, from_user_id, to_user_id, now) ==
    LET since        == now - Week
        meets        == Meets(D, from_user_id, to_user_id, since)
        mutual       == Mutual(R, from_user_id, to_user_id, since)
        mutual_total == Cardinality(mutual)
        mutual_high  == Cardinality({i \in mutual : R[i].value >= HighValue})
    IN  IF PairMetTooOften(meets) THEN FALSE
        ELSE IF mutual_total >= MutualMin /\ MutualHighRatio(mutual_high, mutual_total)
             THEN FALSE
             ELSE TRUE

\* lines 92-104, as a bug would have it: only the rows that count for the
\* season are averaged
ValuesOf_ValidOnly(R, to_user_id, rating_type) ==
    LET rows == SelectSeq(R, LAMBDA r : r.to_user_id = to_user_id
                                          /\ r.rating_type = rating_type
                                          /\ r.is_seasonal_valid)
    IN  [i \in 1..Len(rows) |-> rows[i].value]

\* the values of the ratings of one kind received by a user, oldest first
ValuesOf(R, to_user_id, rating_type) ==
    LET rows == SelectSeq(R, LAMBDA r : r.to_user_id = to_user_id
                                          /\ r.rating_type = rating_type)
    IN  [i \in 1..Len(rows) |-> rows[i].value]

\* lines 107-123, as a bug would have it: the average of all the rows
Last20_All(values) == Avg(values)

\* lines 107-123: order_by(created_at.desc()).limit(20), averaged
Last20(values) == Avg(LastN(values, RollingWindow))

\* line 131: prev_chat and (prev_chat - avg_chat) >= 3
SharpDrop(prev_chat, avg_chat) == prev_chat # 0 /\ (prev_chat - avg_chat) >= 3 * Scale

\* lines 77-143: the users row of the ratee after the recomputation
on_rating_saved(R, user, to_user_id) ==
    LET chat     == ValuesOf(R, to_user_id, "chat")
        app      == ValuesOf(R, to_user_id, "appearance")
        avg_chat == Avg(chat)
    IN  [user EXCEPT
            !.calibration_counter =
                Cardinality({R[i].dialog_id : i \in {j \in 1..Len(R) :
                                R[j].to_user_id = to_user_id /\ R[j].rating_type = "chat"}}),
            !.last_20_avg_chat = Last20(chat),
            !.last_20_avg_appearance = Last20(app),
            !.season_rating_chat = avg_chat,
            !.season_rating_appearance = Avg(app),
            !.is_under_review = @ \/ SharpDrop(user.season_rating_chat, avg_chat)]

----------------------------------------------------------------------------
(* handlers/rating.py: rating_text_input *)

\* _parse_rating returned None
NoValue == -1

DigitChars == <<"0", "1", "2", "3", "4", "5", "6", "7", "8", "9">>

\* str.isdigit() of one character of the inputs used here
IsDigitChar(c) == \E i \in 1..Len(DigitChars) : DigitChars[i] = c

DigitValue(c) == (CHOOSE i \in 1..Len(DigitChars) : DigitChars[i] = c) - 1

RECURSIVE lstrip(_)
lstrip(t) == IF t # <<>> /\ t[1] = " " THEN lstrip(Tail(t)) ELSE t

RECURSIVE rstrip(_)
rstrip(t) == IF t # <<>> /\ t[Len(t)] = " " THEN rstrip(SubSeq(t, 1, Len(t) - 1)) ELSE t

\* str.strip()
strip(t) == rstrip(lstrip(t))

\* str.isdigit(): not empty, digits only
isdigit(t) == t # <<>> /\ \A i \in 1..Len(t) : IsDigitChar(t[i])

\* int(t) of a string of digits
RECURSIVE int(_)
int(t) == IF t = <<>> THEN 0
          ELSE 10 * int(SubSeq(t, 1, Len(t) - 1)) + DigitValue(t[Len(t)])

\* line 245, as a bug would have it: no upper end of the range
InRange_NoUpper(v) == 0 <= v

\* line 245: 0 <= v <= 10
InRange(v) == 0 <= v /\ v <= 10

\* lines 238-247; a message is [has_text, text], text a sequence of characters
_parse_rating(message) ==
    IF ~message.has_text THEN NoValue
    ELSE LET t == strip(message.text)
         IN  IF ~isdigit(t) THEN NoValue
             ELSE IF InRange(int(t)) THEN int(t) ELSE NoValue

NoMessage == [has_text |-> FALSE, text |-> <<>>]

Text(t) == [has_text |-> TRUE, text |-> t]

RtInit == [message |-> NoMessage, dialog_id |-> NoDialog, has_photos |-> FALSE,
           step |-> "", value |-> NoValue, to |-> NoUser, prev_chat |-> 0, new_chat |-> 0]

\* the ratings row of line 347
Rating(dialog_id, from_user_id, to_user_id, rating_type, value, is_seasonal_valid, created_at) ==
    [dialog_id |-> dialog_id, from_user_id |-> from_user_id, to_user_id |-> to_user_id,
     rating_type |-> rating_type, value |-> value,
     is_seasonal_valid |-> is_seasonal_valid, created_at |-> created_at]

\* ux_ratings_unique, as a bug would have it: no row is refused
ux_ratings_unique_None(R, r) == FALSE

\* models.py, ux_ratings_unique: a row of the same dialog, rater, ratee and
\* kind exists, the insert of r fails
ux_ratings_unique(R, r) ==
    \E i \in 1..Len(R) :
        /\ R[i].dialog_id = r.dialog_id
        /\ R[i].from_user_id = r.from_user_id
        /\ R[i].to_user_id = r.to_user_id
        /\ R[i].rating_type = r.rating_type

\* the update arrives: a message of a user who has no active_dialog pointer
\* (relay_messages takes the texts and photos of those who have one)
Rate_Receive(u, message) ==
    /\ rpc[u] = "idle"
    /\ active_dialog[u] = NoDialog
    /\ pending_rating[u] # NoPending
    /\ rpc' = [rpc EXCEPT ![u] = "read"]
    /\ rt' = [rt EXCEPT ![u] = [RtInit EXCEPT !.message = message]]
    /\ UNCHANGED <<durable, queues, lock_match, lock_owner, active_dialog, last_partner, cooldown,
                   pending_rating, appearance_rating_required, tmVars, finVars, relayVars,
                   ratings, resumed, alerts>>

\* lines 257-302: a command is left alone; the bundle's dialog and has_photos
\* are read, then the step; the text is parsed, and input that is no rating
\* ends the handler
Rate_Read(u) ==
    /\ rpc[u] = "read"
    /\ LET m     == rt[u].message
           b     == pending_rating[u]
           value == _parse_rating(m)
       IN  IF \/ (m.has_text /\ m.text # <<>> /\ m.text[1] = "/")
              \/ b.dialog = NoDialog
              \/ value = NoValue
           THEN /\ rpc' = [rpc EXCEPT ![u] = "idle"]
                /\ rt' = [rt EXCEPT ![u] = RtInit]
           ELSE /\ rpc' = [rpc EXCEPT ![u] = "insert"]
                /\ rt' = [rt EXCEPT ![u].message = NoMessage,
                                    ![u].dialog_id = b.dialog,
                                    ![u].has_photos = (b.has_photos = "1"),
                                    ![u].step = IF b.step = "appearance"
                                                THEN "appearance" ELSE "chat",
                                    ![u].value = value]
    /\ UNCHANGED <<durable, queues, lock_match, lock_owner, active_dialog, last_partner, cooldown,
                   pending_rating, appearance_rating_required, tmVars, finVars, relayVars,
                   ratings, resumed, alerts>>

\* lines 304-371: the partner key, the validity decision, the insert and its
\* commit; a row refused by the unique index is rolled back and the handler
\* is in the except branch, which goes on to _continue_after_rating_tg
Rate_Insert(u) ==
    /\ rpc[u] = "insert"
    /\ LET to == pending_rating[u].partner
           r  == Rating(rt[u].dialog_id, u, to, rt[u].step, rt[u].value,
                        decide_seasonal_validity(dialogs, ratings, u, to, clock), clock)
       IN  IF to = NoUser
           THEN /\ rpc' = [rpc EXCEPT ![u] = "idle"]
                /\ rt' = [rt EXCEPT ![u] = RtInit]
                /\ UNCHANGED ratings
           ELSE IF ux_ratings_unique(ratings, r)
           THEN /\ rpc' = [rpc EXCEPT ![u] = "rejected"]
                /\ rt' = [rt EXCEPT ![u].to = to]
                /\ UNCHANGED ratings
           ELSE /\ Len(ratings) < MaxRatings
                /\ ratings' = Append(ratings, r)
                /\ rpc' = [rpc EXCEPT ![u] = "saved"]
                /\ rt' = [rt EXCEPT ![u].to = to]
    /\ UNCHANGED <<durable, queues, lock_match, lock_owner, active_dialog, last_partner, cooldown,
                   pending_rating, appearance_rating_required, tmVars, finVars, relayVars,
                   resumed, alerts>>

\* line 373: on_rating_saved, one transaction
Rate_Saved(u) ==
    /\ rpc[u] = "saved"
    /\ LET to   == rt[u].to
           user == on_rating_saved(ratings, users[to], to)
       IN  /\ users' = [users EXCEPT ![to] = user]
           /\ rt' = [rt EXCEPT ![u].prev_chat = users[to].season_rating_chat,
                               ![u].new_chat = user.season_rating_chat]
    /\ rpc' = [rpc EXCEPT ![u] = "advance"]
    /\ UNCHANGED <<dialogs, active_dialogs, clock, queues, lock_match, lock_owner, active_dialog,
                   last_partner, cooldown, pending_rating, appearance_rating_required,
                   tmVars, finVars, relayVars, ratings, resumed, alerts>>

Abs(x) == IF x < 0 THEN -x ELSE x

\* line 389: the condition of the alert
SharpChange(step, prev_chat, new_chat) ==
    step = "chat" /\ prev_chat # 0 /\ Abs(prev_chat - new_chat) >= 3 * Scale

\* lines 389-424: the alert to the operators; after the chat rating of a
\* dialog with photos the step key is set to appearance and the handler
\* ends, otherwise it goes on to _continue_after_rating_tg
Rate_Advance(u) ==
    /\ rpc[u] = "advance"
    /\ alerts' = IF SharpChange(rt[u].step, rt[u].prev_chat, rt[u].new_chat)
                 THEN alerts \cup {[user |-> rt[u].to, rater |-> u,
                                    dialog |-> rt[u].dialog_id]}
                 ELSE alerts
    /\ IF rt[u].step = "chat" /\ rt[u].has_photos
       THEN /\ pending_rating' = [pending_rating EXCEPT ![u].step = "appearance"]
            /\ rpc' = [rpc EXCEPT ![u] = "idle"]
            /\ rt' = [rt EXCEPT ![u] = RtInit]
       ELSE /\ rpc' = [rpc EXCEPT ![u] = "continue"]
            /\ UNCHANGED <<pending_rating, rt>>
    /\ UNCHANGED <<durable, queues, lock_match, lock_owner, active_dialog, last_partner, cooldown,
                   appearance_rating_required, tmVars, finVars, relayVars, ratings, resumed>>

\* _clear_pending, as a bug would have it: the step key is not deleted
_clear_pending_KeepStep(bundle) == [NoPending EXCEPT !.step = bundle.step]

\* _clear_pending, lines 95-107: every key of the bundle is deleted
_clear_pending(bundle) == NoPending

\* line 159, as a bug would have it: the stored action is not looked at
ActionOf_End(action_raw) == "end"

\* line 159: action = _b2s(action_raw) or "end"
ActionOf(action_raw) == IF action_raw = "" THEN "end" ELSE action_raw

\* _continue_after_rating_tg, lines 150-163 and 231: the action key is read,
\* _clear_pending deletes the bundle; for end the profile is shown
Rate_Continue(u) ==
    /\ rpc[u] \in {"continue", "rejected"}
    /\ pending_rating' = [pending_rating EXCEPT ![u] = _clear_pending(@)]
    /\ IF ActionOf(pending_rating[u].action) = "skip"
       THEN /\ rpc' = [rpc EXCEPT ![u] = "resume"]
            /\ UNCHANGED <<rt, resumed>>
       ELSE /\ resumed' = [resumed EXCEPT ![u] = "profile"]
            /\ rpc' = [rpc EXCEPT ![u] = "idle"]
            /\ rt' = [rt EXCEPT ![u] = RtInit]
    /\ UNCHANGED <<durable, queues, lock_match, lock_owner, active_dialog, last_partner, cooldown,
                   appearance_rating_required, tmVars, finVars, relayVars, ratings, alerts>>

\* _continue_after_rating_tg, lines 180-189, for skip: the users row is
\* read, a banned user is shown the profile, the others call try_match
Rate_Resume(u) ==
    /\ rpc[u] = "resume"
    /\ IF users[u].is_banned
       THEN /\ resumed' = [resumed EXCEPT ![u] = "profile"]
            /\ UNCHANGED <<lock_match, lock_owner, tmVars, relayVars>>
       ELSE /\ resumed' = [resumed EXCEPT ![u] = "search"]
            /\ try_match(u)
    /\ rpc' = [rpc EXCEPT ![u] = "idle"]
    /\ rt' = [rt EXCEPT ![u] = RtInit]
    /\ UNCHANGED <<durable, queues, active_dialog, last_partner, cooldown,
                   pending_rating, appearance_rating_required, finVars, relayVars, ratings, alerts>>

----------------------------------------------------------------------------
(* TTL expiry of the fast-store keys *)

\* lock:match:<u>, as a bug would have it: set without PX, it never expires
ExpireLockMatch_Never(u) == FALSE /\ UNCHANGED vars

\* lock:match:<u>, PX 4000
ExpireLockMatch(u) ==
    /\ lock_match[u]
    /\ lock_match' = [lock_match EXCEPT ![u] = FALSE]
    /\ lock_owner' = [lock_owner EXCEPT ![u] = NoUser]
    /\ UNCHANGED <<durable, queues, active_dialog, last_partner, cooldown, pending_rating,
                   appearance_rating_required, tmVars, finVars, relayVars>>
    /\ UNCHANGED rateVars

\* pending_rating:<u> and the other keys of the bundle, EX 1 h
ExpirePendingRating(u) ==
    /\ pending_rating[u] # NoPending
    /\ pending_rating' = [pending_rating EXCEPT ![u] = NoPending]
    /\ UNCHANGED <<durable, queues, lock_match, lock_owner, active_dialog, last_partner, cooldown,
                   appearance_rating_required, tmVars, finVars, relayVars>>
    /\ UNCHANGED rateVars

\* the process stops while try_match of s is between two of its steps: the
\* keys it has set stay as they are and its finally block does not run
TM_Stop(s) ==
    /\ pc[s] # "idle"
    /\ pc' = [pc EXCEPT ![s] = "idle"]
    /\ tm' = [tm EXCEPT ![s] = TmInit]
    /\ UNCHANGED <<durable, queues, lock_match, lock_owner, active_dialog, last_partner, cooldown,
                   pending_rating, appearance_rating_required, searches, finVars, relayVars>>
    /\ UNCHANGED rateVars

\* active_dialog:<u>, EX 12 h
ExpireActiveDialog(u) ==
    /\ active_dialog[u] # NoDialog
    /\ active_dialog' = [active_dialog EXCEPT ![u] = NoDialog]
    /\ UNCHANGED <<durable, queues, lock_match, lock_owner, last_partner, cooldown, pending_rating,
                   appearance_rating_required, tmVars, finVars, relayVars>>
    /\ UNCHANGED rateVars

Pair(d) == {dialogs[d].user1_id, dialogs[d].user2_id}

\* 10 minutes have passed since dialog d was finished; the handler that
\* finished it is not still between its commit and its pipeline
CooldownOver(d) ==
    /\ d \in cooldown
    /\ \A u \in Users : ~(fpc[u] = "redis" /\ fin[u].dialog_id = d)
    /\ cooldown' = cooldown \ {d}
    /\ UNCHANGED <<durable, queues, lock_match, lock_owner, active_dialog, last_partner, pending_rating,
                   appearance_rating_required, tmVars, finVars, relayVars>>
    /\ UNCHANGED rateVars

\* last_partner:<u>, EX 600: set after the finish, so it outlives the 10
\* minutes after the finish
ExpireLastPartner(u) ==
    /\ last_partner[u] # NoUser
    /\ \A d \in cooldown : Pair(d) # {u, last_partner[u]}
    /\ last_partner' = [last_partner EXCEPT ![u] = NoUser]
    /\ UNCHANGED <<durable, queues, lock_match, lock_owner, active_dialog, cooldown, pending_rating,
                   appearance_rating_required, tmVars, finVars, relayVars>>
    /\ UNCHANGED rateVars

----------------------------------------------------------------------------
(* The stores as the process finds them, and the specification *)

\* a users row; the averages are kept in units of 1/Scale of a point
User(city, premium, is_banned, season_rating_chat) ==
    [city |-> city, premium |-> premium, is_banned |-> is_banned,
     season_rating_chat |-> season_rating_chat * Scale,
     season_rating_appearance |-> 0,
     last_20_avg_chat |-> 0, last_20_avg_appearance |-> 0,
     calibration_counter |-> 0, is_under_review |-> FALSE]

Plain == User("", FALSE, FALSE, 5)

Banned == User("", FALSE, TRUE, 5)

EmptyQueues == [q \in QueueNames |-> <<>>]

RECURSIVE EnqueueAll(_, _, _)
EnqueueAll(Q, us, S) ==
    IF S = {} THEN Q
    ELSE LET u == CHOOSE x \in S : \A y \in S : x <= y
         IN  EnqueueAll(enqueue(Q, u, us[u].city, us[u].premium), us, S \ {u})

\* the dialogs rows found at start: one active dialog of users 1 and 2 with
\* its two active_dialogs rows and its mirrored pointers
OneDialog ==
    << [user1_id |-> 1, user2_id |-> 2, status |-> "active", created_at |-> 0,
        finished_at |-> 0] >>

\* the stores as found: the users, dialogs and ratings rows, the dialog each
\* user is active in by its active_dialogs row and by its pointer, the
\* waiting users, the bundles and the appearance flags, each with the
\* detection key of the photo that set it; no handler is running
InitKeys(us, ds, rows, pointers, Waiting, rs, pending, required) ==
    /\ users = us
    /\ dialogs = ds
    /\ active_dialogs = rows
    /\ active_dialog = pointers
    /\ clock = 0
    /\ \E S \in SUBSET Waiting : queues = EnqueueAll(EmptyQueues, us, S)
    /\ lock_match = [u \in Users |-> FALSE]
    /\ lock_owner = [u \in Users |-> NoUser]
    /\ last_partner = [u \in Users |-> NoUser]
    /\ cooldown = {}
    /\ pending_rating = pending
    /\ appearance_rating_required = required
    /\ pc = [u \in Users |-> "idle"]
    /\ tm = [u \in Users |-> TmInit]
    /\ searches = [u \in Users |-> 0]
    /\ fpc = [u \in Users |-> "idle"]
    /\ fin = [u \in Users |-> FinInit]
    /\ ratings = rs
    /\ rpc = [u \in Users |-> "idle"]
    /\ rt = [u \in Users |-> RtInit]
    /\ resumed = [u \in Users |-> ""]
    /\ alerts = {}
    /\ photo = [u \in Users |-> PhotoInit]
    /\ dialog_sender_human_detected =
          {<<r[2], IF ds[r[2]].user1_id = r[1] THEN ds[r[2]].user2_id ELSE ds[r[2]].user1_id>> :
              r \in required}

\* the stores as found, every pointer mirroring its active_dialogs row
InitFound(us, ds, ad, Waiting, rs, pending, required) ==
    InitKeys(us, ds, ad, ad, Waiting, rs, pending, required)

InitStores(us, ds, Waiting) ==
    InitFound(us, ds,
              [u \in Users |->
                  IF \E d \in 1..Len(ds) : u \in {ds[d].user1_id, ds[d].user2_id}
                  THEN 1 ELSE NoDialog],
              Waiting, <<>>, [u \in Users |-> NoPending], {})

\* users 1 and 3 of city c, user 2 of no city
InCity == (1 :> User("c", FALSE, FALSE, 5)) @@ (2 :> Plain) @@ (3 :> User("c", FALSE, FALSE, 5))

\* try_match of three users who are in no dialog, from empty queues, and the
\* expiry of their locks
InitMatch ==
    \E us \in {[u \in Users |-> Plain], InCity} : InitStores(us, <<>>, {})

NextMatch ==
    \/ \E s \in Users : TM_Begin(s)
    \/ \E s \in Users : TM_Check(s)
    \/ \E s \in Users : TM_Reserve(s)
    \/ \E s \in Users : TM_Validate(s)
    \/ \E s \in Users : TM_Conclude(s)
    \/ \E s \in Users : TM_Finally(s)
    \/ \E u \in Users : ExpireLockMatch(u)

SpecMatch == InitMatch /\ [][NextMatch]_vars

\* try_match while users 1 and 2 are in an active dialog and may still be
\* listed in a queue, with the expiry of locks and pointers
InitActive == InitStores([u \in Users |-> Plain], OneDialog, Users)

NextActive ==
    \/ \E s \in Users : TM_Begin(s)
    \/ \E s \in Users : TM_Check(s)
    \/ \E s \in Users : TM_Reserve(s)
    \/ \E s \in Users : TM_Validate(s)
    \/ \E s \in Users : TM_Conclude(s)
    \/ \E s \in Users : TM_Finally(s)
    \/ \E u \in Users : ExpireLockMatch(u)
    \/ \E u \in Users : ExpireActiveDialog(u)

SpecActive == InitActive /\ [][NextActive]_vars

\* the termination of the dialog of users 1 and 2 by either of them
InitFinish == InitStores([u \in Users |-> Plain], OneDialog, {})

NextFinish ==
    \/ \E u \in Users : \E action \in {"end", "skip"} : Fin_Start(u, action)
    \/ \E u \in Users : Fin_DB(u)
    \/ \E u \in Users : Fin_Redis(u)
    \/ \E u \in Users : ExpireActiveDialog(u)
    \/ \E d \in 1..Len(dialogs) : CooldownOver(d)
    \/ \E u \in Users : ExpireLastPartner(u)

SpecFinish == InitFinish /\ [][NextFinish]_vars

\* the termination of the dialog of users 1 and 2 and their searches after
\* it, user 3 banned and possibly still listed in the global queue
InitCooldown == InitStores((1 :> Plain) @@ (2 :> Plain) @@ (3 :> Banned), OneDialog, {3})

NextCooldown ==
    \/ \E s \in Users : TM_Begin(s)
    \/ \E s \in Users : TM_Check(s)
    \/ \E s \in Users : TM_Reserve(s)
    \/ \E s \in Users : TM_Validate(s)
    \/ \E s \in Users : TM_Conclude(s)
    \/ \E s \in Users : TM_Finally(s)
    \/ \E u \in Users : \E action \in {"end", "skip"} : Fin_Start(u, action)
    \/ \E u \in Users : Fin_DB(u)
    \/ \E u \in Users : Fin_Redis(u)
    \/ \E d \in 1..Len(dialogs) : CooldownOver(d)
    \/ \E u \in Users : ExpireLastPartner(u)

SpecCooldown == InitCooldown /\ [][NextCooldown]_vars

\* what the transport delivers to rating_text_input: ratings, texts that
\* are none, a command, a message without text
Messages ==
    {Text(<<"1", "0">>), Text(<<" ", "9", " ">>),
     Text(<<"1", "1">>), Text(<<"a">>), Text(<<"/", "7">>), NoMessage}

\* a users row as the registration leaves it
Registered(is_banned) == User("", FALSE, is_banned, 0)

\* the users rows after the recomputations that followed the ratings rs
RatedUsers(us, rs) ==
    [u \in Users |->
        IF \E i \in 1..Len(rs) : rs[i].to_user_id = u
        THEN on_rating_saved(rs, us[u], u) ELSE us[u]]

\* the termination of the dialog of users 1 and 2 and the rating flows of
\* the two; user 2 has been banned during the dialog, and a photo with a
\* face may have been sent to user 1
InitRating ==
    \E required \in SUBSET {<<1, 1>>} :
        InitFound((1 :> Registered(FALSE)) @@ (2 :> Registered(TRUE)) @@ (3 :> Registered(FALSE)),
                  OneDialog, (1 :> 1) @@ (2 :> 1) @@ (3 :> NoDialog), {}, <<>>,
                  [u \in Users |-> NoPending], required)

NextRating ==
    \/ \E u \in Users : \E action \in {"end", "skip"} : Fin_Start(u, action)
    \/ \E u \in Users : Fin_DB(u)
    \/ \E u \in Users : Fin_Redis(u)
    \/ \E u \in Users : \E message \in Messages : Rate_Receive(u, message)
    \/ \E u \in Users : Rate_Read(u)
    \/ \E u \in Users : Rate_Insert(u)
    \/ \E u \in Users : Rate_Saved(u)
    \/ \E u \in Users : Rate_Advance(u)
    \/ \E u \in Users : Rate_Continue(u)
    \/ \E u \in Users : Rate_Resume(u)

SpecRating == InitRating /\ [][NextRating]_vars

\* The earlier meetings of users a and b: dialog i, finished, created on
\* day at[i], and the ratings given in it on day rated_at[i]: the chat
\* rating of a, the appearance rating of a when photos, the chat rating of b
\* when both, each stored with the validity decided on that day; the first
\* lows of the ratings are 0, the others 10.
RECURSIVE Meetings(_, _, _, _, _, _, _, _, _, _)
Meetings(i, a, b, at, rated_at, both, photos, lows, D, R) ==
    IF i > Len(at) THEN <<D, R>>
    ELSE LET D1 == Append(D, [user1_id |-> a, user2_id |-> b, status |-> "finished",
                              created_at |-> at[i], finished_at |-> at[i]])
             row(X, from, to, rating_type) ==
                 Append(X, Rating(i, from, to, rating_type,
                                  IF Len(X) + 1 <= lows THEN 0 ELSE 10,
                                  decide_seasonal_validity(D1, X, from, to, rated_at[i]),
                                  rated_at[i]))
             R1 == row(R, a, b, "chat")
             R2 == IF photos THEN row(R1, a, b, "appearance") ELSE R1
             R3 == IF both THEN row(R2, b, a, "chat") ELSE R2
         IN  Meetings(i + 1, a, b, at, rated_at, both, photos, lows, D1, R3)

\* the bundle that the termination of dialog d leaves to a participant
Bundle(d, partner, has_photos) ==
    [dialog |-> d, has_photos |-> has_photos, partner |-> partner, action |-> "end",
     step |-> "chat"]

\* Users 1 and 2 have met before: old times on the day before the 7 days,
\* rated on that day or, late, on the next, and recent times on the first of
\* the 7 days or today.  Their dialog of today is finished, both have
\* their bundle, and they rate each other.
InitValidity ==
    \E old \in 0..1, late \in BOOLEAN, recent \in 0..MaxMeetings, day \in {-Week, 0},
       both \in BOOLEAN, lows \in 0..2 :
        LET at == [i \in 1..(old + recent) |-> IF i <= old THEN -Week - 1 ELSE day]
            rated_at == [i \in 1..(old + recent) |->
                            IF i <= old /\ ~late THEN -Week - 1
                            ELSE IF i <= old THEN -Week ELSE day]
            h  == Meetings(1, 1, 2, at, rated_at, both, FALSE, lows, <<>>, <<>>)
            d  == old + recent + 1
            D  == Append(h[1], [user1_id |-> 1, user2_id |-> 2, status |-> "finished",
                                created_at |-> 0, finished_at |-> 0])
            us == [u \in Users |-> Registered(FALSE)]
        IN  InitFound(RatedUsers(us, h[2]), D, [u \in Users |-> NoDialog], {}, h[2],
                      (1 :> Bundle(d, 2, "0")) @@ (2 :> Bundle(d, 1, "0"))
                          @@ (3 :> NoPending),
                      {})

NextValidity ==
    \/ \E u \in Users : \E message \in Messages : Rate_Receive(u, message)
    \/ \E u \in Users : Rate_Read(u)
    \/ \E u \in Users : Rate_Insert(u)
    \/ \E u \in Users : Rate_Saved(u)
    \/ \E u \in Users : Rate_Advance(u)
    \/ \E u \in Users : Rate_Continue(u)

SpecValidity == InitValidity /\ [][NextValidity]_vars

\* the ratings that the raters of SpecReputation send
Votes == {Text(<<"0">>), Text(<<"1", "0">>)}

\* User 2 has met user 3 before, today, and user 3 has rated each of those
\* dialogs.  The last dialog of users 3 and 2 and then the dialog of users
\* 1 and 2 have been finished; user 3 has their bundle still, user 1 has
\* theirs, with the appearance step required, and both rate user 2.
InitReputation ==
    \E n \in 0..MaxMeetings - 1, photos \in BOOLEAN, lows \in 0..2 :
        LET at == [i \in 1..n |-> 0]
            h  == Meetings(1, 3, 2, at, at, FALSE, photos, lows, <<>>, <<>>)
            D  == h[1] \o
                  << [user1_id |-> 3, user2_id |-> 2, status |-> "finished",
                      created_at |-> 0, finished_at |-> 0],
                     [user1_id |-> 1, user2_id |-> 2, status |-> "finished",
                      created_at |-> 0, finished_at |-> 0] >>
            us == [u \in Users |-> Registered(FALSE)]
        IN  InitFound(RatedUsers(us, h[2]), D, [u \in Users |-> NoDialog], {}, h[2],
                      (1 :> Bundle(n + 2, 2, "1")) @@ (2 :> NoPending)
                          @@ (3 :> Bundle(n + 1, 2, IF photos THEN "1" ELSE "0")),
                      {})

NextReputation ==
    \/ \E u \in Users : \E message \in Votes : Rate_Receive(u, message)
    \/ \E u \in Users : Rate_Read(u)
    \/ \E u \in Users : Rate_Insert(u)
    \/ \E u \in Users : Rate_Saved(u)
    \/ \E u \in Users : Rate_Advance(u)
    \/ \E u \in Users : Rate_Continue(u)

SpecReputation == InitReputation /\ [][NextReputation]_vars

\* a subscriber of city c
Subscriber(season_rating_chat) == User("c", TRUE, FALSE, season_rating_chat)

\* a user of city c without subscription
Resident(is_banned, season_rating_chat) == User("c", FALSE, is_banned, season_rating_chat)

\* User 1 is a subscriber, user 2 a subscriber or not, user 3 is not and
\* may be banned; all are of city c, or user 3 of none; their season chat
\* ratings differ, and users 2 and 3 may be waiting.  No lock expires while they search.
InitPremium ==
    \E p2 \in {Subscriber(7), Resident(FALSE, 7)} :
    \E p3 \in {Resident(FALSE, 3), Resident(FALSE, 9), Resident(TRUE, 9),
                User("", FALSE, FALSE, 3)} :
        InitStores((1 :> Subscriber(5)) @@ (2 :> p2) @@ (3 :> p3), <<>>, {2, 3})

NextPremium ==
    \/ \E s \in Users : TM_Begin(s)
    \/ \E s \in Users : TM_Check(s)
    \/ \E s \in Users : TM_Reserve(s)
    \/ \E s \in Users : TM_Validate(s)
    \/ \E s \in Users : TM_Conclude(s)
    \/ \E s \in Users : TM_Finally(s)

SpecPremium == InitPremium /\ [][NextPremium]_vars

\* The dialog of users 1 and 2 has been terminated and neither answers the
\* rating prompt; users 1 and 3 search, user 3 possibly waiting already,
\* and the process may stop inside any try_match.  Time passes: every lock
\* and every bundle that stays set reaches the end of its TTL.
InitExpiry ==
    InitFound([u \in Users |-> Plain],
              << [user1_id |-> 1, user2_id |-> 2, status |-> "finished",
                  created_at |-> 0, finished_at |-> 0] >>,
              [u \in Users |-> NoDialog], {3}, <<>>,
              (1 :> Bundle(1, 2, "0")) @@ (2 :> Bundle(1, 1, "0")) @@ (3 :> NoPending),
              {})

NextExpiry ==
    \/ \E s \in {1, 3} : TM_Begin(s)
    \/ \E s \in Users : TM_Check(s)
    \/ \E s \in Users : TM_Reserve(s)
    \/ \E s \in Users : TM_Validate(s)
    \/ \E s \in Users : TM_Conclude(s)
    \/ \E s \in Users : TM_Finally(s)
    \/ \E s \in Users : TM_Stop(s)
    \/ \E u \in Users : ExpireLockMatch(u)
    \/ \E u \in Users : ExpirePendingRating(u)

SpecExpiry ==
    /\ InitExpiry
    /\ [][NextExpiry]_vars
    /\ \A u \in Users : WF_vars(ExpireLockMatch(u)) /\ WF_vars(ExpirePendingRating(u))

\* Subscriber 1 and user 2 search while users 2 and 3 may be waiting; user 3
\* is rated above user 2, so that a search of user 1 that has taken user 2
\* puts them back for user 3.  Every lock may reach the end of its TTL
\* while the search that set it is still running.
InitStale ==
    InitStores((1 :> Subscriber(5)) @@ (2 :> Resident(FALSE, 3)) @@ (3 :> Resident(FALSE, 9)),
               <<>>, {2, 3})

NextStale ==
    \/ \E s \in {1, 2} : TM_Begin(s)
    \/ \E s \in Users : TM_Check(s)
    \/ \E s \in Users : TM_Reserve(s)
    \/ \E s \in Users : TM_Validate(s)
    \/ \E s \in Users : TM_Conclude(s)
    \/ \E s \in Users : TM_Finally(s)
    \/ \E u \in Users : ExpireLockMatch(u)

SpecStale == InitStale /\ [][NextStale]_vars

\* Users 1 and 3 have met in dialog 1, which is finished and in which a
\* photo of either may have set the flag of the other; users 1 and 2 are in
\* dialog 2, send photos and terminate it.
InitPhoto ==
    \E required \in SUBSET {<<1, 1>>, <<3, 1>>} :
        InitFound([u \in Users |-> Plain],
                  << [user1_id |-> 1, user2_id |-> 3, status |-> "finished",
                      created_at |-> 0, finished_at |-> 0],
                     [user1_id |-> 1, user2_id |-> 2, status |-> "active",
                      created_at |-> 0, finished_at |-> 0] >>,
                  (1 :> 2) @@ (2 :> 2) @@ (3 :> NoDialog), {}, <<>>,
                  [u \in Users |-> NoPending], required)

NextPhoto ==
    \/ \E u \in Users : Relay_Photo(u)
    \/ \E u \in Users : Photo_Pre(u)
    \/ \E u \in Users : Photo_Detect(u)
    \/ \E u \in Users : Photo_Check(u)
    \/ \E u \in Users : Photo_Flag(u)
    \/ \E u \in Users : \E action \in {"end", "skip"} : Fin_Start(u, action)
    \/ \E u \in Users : Fin_DB(u)
    \/ \E u \in Users : Fin_Redis(u)

SpecPhoto == InitPhoto /\ [][NextPhoto]_vars

\* Subscribers 1 and 3 and user 2, all of city c and possibly waiting in
\* their queues; users 1 and 2 are in an active dialog.  User 3 searches;
\* locks and pointers expire.
InitReserve ==
    InitStores((1 :> Subscriber(5)) @@ (2 :> Resident(FALSE, 7)) @@ (3 :> Subscriber(3)),
               OneDialog, Users)

SpecReserve == InitReserve /\ [][NextActive]_vars

\* Users 1 and 3 have met in dialog 1, which is finished; the pipeline of
\* its termination failed, and the pointer of user 3 has stayed since.  User 1
\* is in dialog 2 with user 2.  Anyone terminates the dialog of their
\* pointer, and the durable step of a termination may fail.
InitLate ==
    InitKeys([u \in Users |-> Plain],
             << [user1_id |-> 1, user2_id |-> 3, status |-> "finished",
                 created_at |-> 0, finished_at |-> 0],
                [user1_id |-> 1, user2_id |-> 2, status |-> "active",
                 created_at |-> 0, finished_at |-> 0] >>,
             (1 :> 2) @@ (2 :> 2) @@ (3 :> NoDialog),
             (1 :> 2) @@ (2 :> 2) @@ (3 :> 1),
             {}, <<>>, [u \in Users |-> NoPending], {})

NextLate ==
    \/ NextFinish
    \/ \E u \in Users : Fin_DBFailed(u)

SpecLate == InitLate /\ [][NextLate]_vars

\* Subscriber 1 and user 2 search while users 2 and 3 may be waiting; user 3
\* is rated below user 2 and never searches, and anyone may cancel their
\* search at any time.  No lock expires.
InitCancel ==
    InitStores((1 :> Subscriber(5)) @@ (2 :> Resident(FALSE, 7)) @@ (3 :> Resident(FALSE, 3)),
               <<>>, {2, 3})

NextCancel ==
    \/ \E s \in {1, 2} : TM_Begin(s)
    \/ \E s \in Users : TM_Check(s)
    \/ \E s \in Users : TM_Reserve(s)
    \/ \E s \in Users : TM_Validate(s)
    \/ \E s \in Users : TM_Conclude(s)
    \/ \E s \in Users : TM_Finally(s)
    \/ \E u \in Users : Cancel_Search(u)

SpecCancel == InitCancel /\ [][NextCancel]_vars

\* as SpecMatch, with searches of a user whose try_match is running
NextAgain ==
    \/ NextMatch
    \/ \E s \in Users : TM_Again(s)

SpecAgain == InitMatch /\ [][NextAgain]_vars

\* the whole
Init ==
    \/ InitMatch
    \/ InitActive
    \/ InitFinish
    \/ InitCooldown

Next ==
    \/ \E s \in Users : TM_Begin(s)
    \/ \E s \in Users : TM_Check(s)
    \/ \E s \in Users : TM_Reserve(s)
    \/ \E s \in Users : TM_Validate(s)
    \/ \E s \in Users : TM_Conclude(s)
    \/ \E s \in Users : TM_Finally(s)
    \/ \E u \in Users : \E action \in {"end", "skip"} : Fin_Start(u, action)
    \/ \E u \in Users : Fin_DB(u)
    \/ \E u \in Users : Fin_Redis(u)
    \/ \E u \in Users : ExpireLockMatch(u)
    \/ \E u \in Users : ExpireActiveDialog(u)
    \/ \E d \in 1..Len(dialogs) : CooldownOver(d)
    \/ \E u \in Users : ExpireLastPartner(u)

Spec == Init /\ [][Next]_vars

----------------------------------------------------------------------------
(* Properties *)

\* try_match of s ends here through its finally block
Ends(s) == pc[s] = "finally" /\ pc'[s] = "idle"

\* C1: the reservation script hands a candidate to a searcher only when the
\* candidate's lock is free, and the lock is held from that step on: while
\* the lock of a reserved candidate is held, no other searcher obtains that
\* candidate, and a searcher never obtains itself.
C1_ReservationExclusive ==
    [][\A s \in Users :
          (pc[s] = "attempt" /\ pc'[s] = "validate")
              => LET c == tm'[s].candidate_tg_id
                 IN  /\ c # s
                     /\ ~lock_match[c]
                     /\ lock_match'[c]
                     /\ \A o \in Users \ {s} :
                           ~(pc[o] = "validate" /\ tm[o].candidate_tg_id = c /\ lock_match[c])]_vars

\* C1, the case: s1 holds the reservation of a candidate whose lock is held,
\* and s2 is about to run the script on a queue whose next entry is that
\* candidate
C1_Contended ==
    \E s1 \in Users : \E s2 \in Users \ {s1} :
        /\ pc[s1] = "validate"
        /\ lock_match[tm[s1].candidate_tg_id]
        /\ pc[s2] = "attempt"
        /\ active_dialog[s2] = NoDialog
        /\ \E i \in 1..Len(FromQueues(s2)) :
              /\ queues[FromQueues(s2)[i]] # <<>>
              /\ RPopElem(queues[FromQueues(s2)[i]]) = tm[s1].candidate_tg_id

\* C3: when every one of the N users, all eligible and all of no city (one
\* shared queue), has run exactly one try_match and all of them have ended,
\* exactly floor(N/2) dialogs exist and no user is in two of them.
C3_FloorHalfDialogs ==
    (/\ \A u \in Users : users[u].city = "" /\ ~users[u].is_banned
     /\ \A u \in Users : searches[u] = 1 /\ pc[u] = "idle")
        => /\ Len(dialogs) = Cardinality(Users) \div 2
           /\ \A d1, d2 \in 1..Len(dialogs) : d1 # d2 => Pair(d1) \cap Pair(d2) = {}

\* C4: a user with an ActiveDialog row gets no second match: a try_match of
\* that user does not get past the check of its row, no search holds that
\* user as chosen partner or as best candidate, and no dialog is added.
C4_NoSecondMatch ==
    /\ \A s \in Users :
          pc[s] \in {"attempt", "validate", "conclude"} => active_dialogs[s] = NoDialog
    /\ \A s \in Users :
          /\ tm[s].partner_info # NoUser => active_dialogs[tm[s].partner_info] = NoDialog
          /\ tm[s].best_candidate_tg # NoUser => active_dialogs[tm[s].best_candidate_tg] = NoDialog
    /\ \A d \in 1..Len(dialogs) : dialogs[d].status = "active" =>
          \A u \in Pair(d) : active_dialogs[u] = d

\* C4, the case: a search of a user with a row has been cut short at the
\* check of the row, and another search has been through a validation that
\* refused a queued user whose row exists while their pointer has expired
C4_RowHolderMet ==
    /\ \E s \in Users : pc[s] = "finally" /\ active_dialogs[s] # NoDialog /\ ~tm[s].raised
    /\ \E s \in Users : \E c \in Users \ {s} :
          /\ pc[s] = "attempt"
          /\ tm[s].attempt >= 1
          /\ active_dialogs[c] # NoDialog
          /\ active_dialog[c] = NoDialog
          /\ InQueue(queues, queue_global, c)
          /\ \A o \in Users \ {s, c} : active_dialog[o] # NoDialog \/ ~InSomeQueue(queues, o)

\* C5: whenever a try_match ends without a dialog for its searcher, on any
\* path or by an exception, and the searcher is not at that moment held as the
\* reserved candidate of another search, the searcher is in the waiting
\* queues of their city and premium status.
C5_UnmatchedSearcherQueued ==
    [][\A s \in Users :
          (/\ Ends(s)
           /\ tm[s].dialog_id = NoDialog
           /\ \A o \in Users \ {s} : tm[o].candidate_tg_id # s /\ tm[o].partner_info # s)
              => /\ InQueue(queues', _select_queue(users[s].city, users[s].premium), s)
                 /\ InQueue(queues', _select_queue("", users[s].premium), s)]_vars

\* C6: when try_match of a non-premium user b of no city, who searched once
\* after the only other searcher a had searched once and is idle, ends having
\* taken a from the global queue, it returns a match result with the id of a
\* new dialog, and that dialog is the only Dialog row, active, of b and a,
\* with one ActiveDialog row for each of them.
C6_MatchCreated ==
    [][\A a \in Users : \A b \in Users \ {a} :
          (/\ Ends(b)
           /\ tm[b].partner_info = a
           /\ users[b].city = "" /\ ~users[b].premium
           /\ searches[a] = 1 /\ searches[b] = 1
           /\ \A o \in Users \ {b} : pc[o] = "idle"
           /\ \A o \in Users \ {a, b} : searches[o] = 0)
              => /\ ~tm[b].raised
                 /\ tm[b].dialog_id # NoDialog
                 /\ Len(dialogs') = 1
                 /\ dialogs'[1].status = "active"
                 /\ Pair(1)' = {a, b}
                 /\ active_dialogs'[a] = 1 /\ active_dialogs'[b] = 1
                 /\ \A o \in Users \ {a, b} : active_dialogs'[o] = NoDialog]_vars

C9_FinishedIsNoOp ==
    [][\A d \in 1..Len(dialogs) :
          dialogs[d].status = "finished"
              => /\ dialogs'[d] = dialogs[d]
                 /\ active_dialogs' = active_dialogs
                 /\ \A u \in Pair(d) :
                       pending_rating[u].dialog = d => pending_rating'[u] = pending_rating[u]]_vars

Partner(d, u) == IF dialogs[d].user1_id = u THEN dialogs[d].user2_id ELSE dialogs[d].user1_id

\* the pipeline of the termination by u has run
Terminates(u) == fpc[u] = "redis" /\ fpc'[u] = "idle"

\* resume search / show profile as the bundle names them
ResumeSearch == "skip"

ShowProfile == "end"

\* the resume actions a termination by u with the given action has to store
StoredAsSpecified(u, action) ==
    LET o == Partner(fin[u].dialog_id, u)
    IN  /\ pending_rating'[o].action = ResumeSearch
        /\ pending_rating'[u].action = IF action = "skip" THEN ResumeSearch ELSE ShowProfile

\* the rating flow of u completes here, and what is performed for the stored
\* action: the profile shown, or try_match called
Completes(u) == rpc[u] \in {"continue", "rejected", "resume"} /\ rpc'[u] = "idle"

Performed(u, action) ==
    IF action = ResumeSearch
    THEN resumed'[u] = "search" /\ searches'[u] = searches[u] + 1
    ELSE resumed'[u] = "profile" /\ searches'[u] = searches[u]

\* the action of the bundle when _continue_after_rating_tg began: the step
\* that read and cleared it left continue for resume only for skip
StoredAction(u) ==
    IF rpc[u] = "resume" THEN ResumeSearch ELSE pending_rating[u].action

\* C11 as stated: a termination stores resume search for both participants
\* when its action was skip, and for end show profile for the one who
\* terminated and resume search for the other; and when the rating flow of a
\* user completes, exactly the action stored for that user is performed.
C11_ResumeAsStored ==
    [][\A u \in Users :
          /\ Terminates(u) => StoredAsSpecified(u, fin[u].action)
          /\ Completes(u) => Performed(u, StoredAction(u))]_vars

\* C11, amended: the actions are stored as stated, and the stored action is
\* performed when the rating flow completes, except that a user who is banned
\* by then and whose stored action is resume search is shown the profile.
C11_ResumeAsStoredUnlessBanned ==
    [][\A u \in Users :
          /\ Terminates(u) => StoredAsSpecified(u, fin[u].action)
          /\ Completes(u) =>
                Performed(u, IF users[u].is_banned THEN ShowProfile ELSE StoredAction(u))]_vars

\* user 1, not banned and stored resume search, has had try_match called,
\* and user 2, banned, has been shown the profile
C11_BothResumed ==
    /\ resumed[1] = "search"
    /\ resumed[2] = "profile"
    /\ searches[1] = 1
    /\ dialogs[1].status = "finished"

\* the rows of one kind that rater u has stored for dialog d and ratee p
RowsOf(R, d, u, p, rating_type) ==
    {i \in 1..Len(R) : /\ R[i].dialog_id = d
                       /\ R[i].from_user_id = u
                       /\ R[i].to_user_id = p
                       /\ R[i].rating_type = rating_type}

\* rating_text_input of u has taken a rating for the given step and is past
\* the insert
Inserted(u, step) == rpc[u] = "insert" /\ rt[u].step = step /\ rpc'[u] # "insert"

\* rating_text_input of u, which took a rating for the given step, decides
\* here between the next rating step and _continue_after_rating_tg
Decides(u, step) ==
    /\ rt[u].step = step
    /\ rpc[u] \in {"insert", "advance"}
    /\ rpc'[u] \in {"idle", "continue", "rejected"}

\* _continue_after_rating_tg of u reads the action and clears the bundle here
Continues(u) == rpc[u] \in {"continue", "rejected"} /\ rpc'[u] \notin {"continue", "rejected"}

\* _continue_after_rating_tg of u has cleared the bundle and performs the
\* resume action: the profile shown, or the way to try_match taken
ClearsAndResumes(u) ==
    /\ pending_rating'[u] = NoPending
    /\ \/ rpc'[u] = "idle" /\ resumed'[u] = "profile"
       \/ rpc'[u] = "resume"

\* C12: a valid rating of a user who awaits the chat rating leaves one chat
\* rating of that user for the bundle's dialog and partner; the user then
\* awaits the appearance rating if and only if the bundle requires the
\* appearance step, and otherwise the bundle is cleared and the resume action
\* performed.
C12_ChatRatingAdvances ==
    [][\A u \in Users :
          /\ Inserted(u, "chat") =>
                Cardinality(RowsOf(ratings', rt[u].dialog_id, u,
                                   pending_rating[u].partner, "chat")) = 1
          /\ Decides(u, "chat") =>
                IF rt[u].has_photos
                THEN /\ rpc'[u] = "idle"
                     /\ pending_rating'[u].dialog = rt[u].dialog_id
                     /\ pending_rating'[u].step = "appearance"
                ELSE rpc'[u] = "continue"
          /\ (rt[u].step = "chat" /\ Continues(u)) => ClearsAndResumes(u)]_vars

RatingMessages == {Text(<<"1", "0">>), Text(<<" ", "9", " ">>)}

\* everything but the position and the locals of the rating handlers
rated == <<users, dialogs, active_dialogs, clock, queues, lock_match, lock_owner,
           active_dialog, last_partner, cooldown, pending_rating,
           appearance_rating_required, pc, tm, searches, fpc, fin, ratings, resumed,
           alerts, photo, dialog_sender_human_detected>>

\* C14: input that is not an integer in 0..10, received by rating_text_input
\* while the user has a bundle (awaits a chat or an appearance rating), ends
\* the handler and changes nothing: no ratings row, no key of the bundle and
\* not its step, no resume action, no other row or key.
C14_InvalidInputChangesNothing ==
    [][\A u \in Users :
          (/\ rpc[u] = "read"
           /\ rpc'[u] # "read"
           /\ pending_rating[u].dialog # NoDialog
           /\ rt[u].message \notin RatingMessages)
              => /\ rpc'[u] = "idle"
                 /\ rt'[u] = RtInit
                 /\ UNCHANGED rated]_vars

\* user 1 awaits the appearance rating, and rating_text_input has received
\* their text "11"
C14_InvalidReceived ==
    /\ pending_rating[1].dialog = 1
    /\ pending_rating[1].step = "appearance"
    /\ rpc[1] = "read"
    /\ rt[1].message = Text(<<"1", "1">>)

\* no two ratings rows of the same dialog, rater, ratee and kind
OneRowEach(R) ==
    \A i, j \in 1..Len(R) :
        (/\ R[i].dialog_id = R[j].dialog_id
         /\ R[i].from_user_id = R[j].from_user_id
         /\ R[i].to_user_id = R[j].to_user_id
         /\ R[i].rating_type = R[j].rating_type) => i = j

\* C15: of the ratings submitted for one dialog, rater, ratee and kind
\* exactly one row is kept: the first submission stores its row; a later one
\* is rejected as already rated, and neither its insert nor what the handler
\* does after it changes the ratings rows or any users row (the ratee's
\* aggregate reputation fields).
C15_DuplicateRejected ==
    [][/\ OneRowEach(ratings')
       /\ \A u \in Users :
             /\ (rpc[u] = "insert" /\ rpc'[u] # "insert" /\ pending_rating[u].partner # NoUser)
                   => IF RowsOf(ratings, rt[u].dialog_id, u, pending_rating[u].partner,
                                rt[u].step) = {}
                      THEN /\ Len(ratings') = Len(ratings) + 1
                           /\ rpc'[u] = "saved"
                      ELSE /\ rpc'[u] = "rejected"
                           /\ ratings' = ratings
                           /\ users' = users
             /\ (rpc[u] \in {"rejected", "resume"} /\ rpc'[u] # rpc[u])
                   => ratings' = ratings /\ users' = users]_vars

\* user 1 has rated the chat of dialog 1, and their second chat rating of it
\* has been rejected
C15_SecondRejected ==
    /\ rpc[1] = "rejected"
    /\ rt[1].step = "chat"
    /\ Cardinality(RowsOf(ratings, 1, 1, 2, "chat")) = 1

\* u's rating_text_input stores a ratings row here
Stores(u) == rpc[u] = "insert" /\ rpc'[u] = "saved"

\* the row just stored
Stored == ratings'[Len(ratings')]

\* the dialogs that a pair has created in the trailing 7 days
MetInWeek(a, b) ==
    {d \in 1..Len(dialogs) : /\ {dialogs[d].user1_id, dialogs[d].user2_id} = {a, b}
                             /\ clock - dialogs[d].created_at <= 7}

\* the chat ratings that a pair has exchanged in the trailing 7 days
ExchangedInWeek(R, a, b) ==
    {i \in 1..Len(R) : /\ R[i].rating_type = "chat"
                       /\ {R[i].from_user_id, R[i].to_user_id} = {a, b}
                       /\ clock - R[i].created_at <= 7}

\* the collusion rule applies to the rows R: at least 10 chat ratings
\* exchanged in the 7 days, at least 80% of them 9 or higher
Collusion(R, a, b) ==
    LET ex == ExchangedInWeek(R, a, b)
    IN  /\ Cardinality(ex) >= 10
        /\ 100 * Cardinality({i \in ex : R[i].value >= 9}) >= 80 * Cardinality(ex)

\* C16: a rating is stored invalid whenever its rater and ratee have created
\* more than 3 dialogs in the trailing 7 days, and stored valid while they
\* have created at most 3 and the collusion rule applies neither to the
\* ratings stored before it nor to those with it.
C16_PairMetTooOften ==
    [][\A u \in Users :
          Stores(u) =>
              LET met == Cardinality(MetInWeek(u, Stored.to_user_id))
              IN  /\ met > 3 => ~Stored.is_seasonal_valid
                  /\ (/\ met <= 3
                      /\ ~Collusion(ratings, u, Stored.to_user_id)
                      /\ ~Collusion(ratings', u, Stored.to_user_id))
                        => Stored.is_seasonal_valid]_vars

\* the dialog of today is the fourth of users 1 and 2 in the 7 days, and the
\* rating user 1 gave in it is stored invalid, while the ratings of the three
\* dialogs before are valid
C16_FourthInvalid ==
    /\ Len(dialogs) = 4
    /\ Cardinality(MetInWeek(1, 2)) = 4
    /\ \E i \in 1..Len(ratings) :
          /\ ratings[i].dialog_id = 4 /\ ratings[i].from_user_id = 1
          /\ ~ratings[i].is_seasonal_valid
    /\ \A i \in 1..Len(ratings) : ratings[i].dialog_id < 4 => ratings[i].is_seasonal_valid

\* C17: when, with the chat rating that is stored, the pair has exchanged at
\* least 10 chat ratings in the trailing 7 days of which at least 80% are 9
\* or higher - or had done so before it - the rating is stored invalid.
C17_CollusionInvalid ==
    [][\A u \in Users :
          (/\ Stores(u)
           /\ Stored.rating_type = "chat"
           /\ \/ Collusion(ratings', u, Stored.to_user_id)
              \/ Collusion(ratings, u, Stored.to_user_id))
              => ~Stored.is_seasonal_valid]_vars

\* the tenth chat rating users 1 and 2 exchanged in the 7 days, 9 of the 10
\* at 10, is stored, and it is invalid
C17_TenthInvalid ==
    /\ Cardinality(ExchangedInWeek(ratings, 1, 2)) = 10
    /\ Cardinality({i \in ExchangedInWeek(ratings, 1, 2) : ratings[i].value >= 9}) = 9
    /\ ~ratings[Len(ratings)].is_seasonal_valid
    /\ ratings[Len(ratings)].dialog_id = Len(dialogs)
    /\ rpc[ratings[Len(ratings)].from_user_id] = "saved"

-----------------------------------------------------------------------------
\* The reputation of the ratee

\* the handler of u commits the recomputation of the ratee's users row
Recomputes(u) == rpc[u] = "saved" /\ rpc'[u] = "advance"

\* the rows of R that rate a kind of a user
Received(R, to, kind) ==
    {i \in 1..Len(R) : R[i].to_user_id = to /\ R[i].rating_type = kind}

\* the n most recent of them: those with fewer than n of them after it
Recent(R, to, kind, n) ==
    {i \in Received(R, to, kind) :
        Cardinality({j \in Received(R, to, kind) : j > i}) < n}

RECURSIVE Total(_, _)
Total(R, I) ==
    IF I = {} THEN 0
    ELSE LET i == CHOOSE j \in I : TRUE IN R[i].value + Total(R, I \ {i})

\* x, in units of 1/Scale, is the mean of the values of the rows I of R
IsMeanOf(x, R, I) == I # {} /\ x * Cardinality(I) = Scale * Total(R, I)

Rolling(user, kind) ==
    IF kind = "chat" THEN user.last_20_avg_chat ELSE user.last_20_avg_appearance

Season(user, kind) ==
    IF kind = "chat" THEN user.season_rating_chat ELSE user.season_rating_appearance

Reflagged(R, i) ==
    [j \in 1..Len(R) |-> IF j = i THEN [R[j] EXCEPT !.is_seasonal_valid = ~@] ELSE R[j]]

\* R with every validity flag set to valid
Flagged(R, valid) == [j \in 1..Len(R) |-> [R[j] EXCEPT !.is_seasonal_valid = valid]]

Alerts(u) == rpc[u] = "advance" /\ rpc'[u] # "advance"

\* a chat season average that is 3 points or more below the one before
Dropped(before, after) == before - after >= 3 * Scale

\* C20: when the recomputation after an accepted rating lowers the ratee's
\* chat season average by 3 points or more, the ratee is under review from
\* then on and the handler of that rating alerts the operators about the
\* ratee.
C20_SharpDropFlaggedAndAlerted ==
    [][\A u \in Users :
          /\ Recomputes(u) =>
                 /\ rt'[u].prev_chat = users[rt[u].to].season_rating_chat
                 /\ rt'[u].new_chat = users'[rt[u].to].season_rating_chat
                 /\ Dropped(users[rt[u].to].season_rating_chat,
                            users'[rt[u].to].season_rating_chat)
                        => users'[rt[u].to].is_under_review
          /\ Alerts(u) /\ Dropped(rt[u].prev_chat, rt[u].new_chat) =>
                 \E a \in alerts' : a.user = rt[u].to /\ a.rater = u]_vars

-----------------------------------------------------------------------------
\* The scan of the candidate queues

\* the reservation script of searcher s hands out a candidate
Reserves(s) == pc[s] = "attempt" /\ pc'[s] = "validate"

\* the reservation script of searcher s, run on the queues of a group,
\* hands out nobody
ReservesNobody(s) ==
    /\ pc[s] = "attempt" /\ active_dialog[s] = NoDialog
    /\ <<pc'[s], tm'[s]>> # <<pc[s], tm[s]>>
    /\ pc'[s] # "validate"

\* the queues of a group in the order in which a searcher is to consult them
ConsultedInOrder(city, premium, group) ==
    IF group = "city"
    THEN (IF premium THEN <<queue_premium_city(city), queue_city(city)>>
                     ELSE <<queue_city(city)>>)
    ELSE (IF premium THEN <<queue_premium_global, queue_global>>
                     ELSE <<queue_global>>)

\* the script run by s can take the user at the right end of queue q
Available(s, q) ==
    /\ queues[q] # <<>>
    /\ RPopElem(queues[q]) # s
    /\ active_dialog[RPopElem(queues[q])] = NoDialog
    /\ ~lock_match[RPopElem(queues[q])]

\* C21: a searcher with a city starts with the city group and a searcher
\* without one with the global group; the global group follows the city
\* group only when that has ended without a partner; in a group the
\* candidate is taken from the first queue, in the order premium queue
\* (for a premium searcher only) then plain queue, that has a user to
\* hand out, and nobody is handed out only when none of them has.
C21_QueueOrder ==
    [][\A s \in Users :
          LET order == ConsultedInOrder(users[s].city, users[s].premium, tm[s].group) IN
          /\ (pc[s] = "check" /\ pc'[s] = "attempt") =>
                 tm'[s].group = (IF users[s].city # "" THEN "city" ELSE "global")
          /\ (pc[s] = "attempt" /\ tm[s].group = "city") => users[s].city # ""
          /\ (tm[s].group = "city" /\ tm'[s].group = "global") =>
                 tm[s].partner_info = NoUser /\ tm'[s].partner_info = NoUser
          /\ ~(tm[s].group = "global" /\ tm'[s].group = "city")
          /\ Reserves(s) =>
                 \E i \in 1..Len(order) :
                    /\ order[i] = tm'[s].source_queue
                    /\ Available(s, order[i])
                    /\ tm'[s].candidate_tg_id = RPopElem(queues[order[i]])
                    /\ \A j \in 1..(i - 1) : ~Available(s, order[j])
          /\ ReservesNobody(s) =>
                 \A i \in 1..Len(order) : ~Available(s, order[i])]_vars

\* a premium searcher is handed a candidate from the premium queue of the
\* city while the plain queue of the city has a user to hand out too
C21_PremiumQueueFirst ==
    \E s \in Users :
        /\ users[s].premium
        /\ pc[s] = "validate"
        /\ tm[s].group = "city"
        /\ tm[s].source_queue = queue_premium_city(users[s].city)
        /\ queues[queue_city(users[s].city)] # <<>>
        /\ ~lock_match[RPopElem(queues[queue_city(users[s].city)])]
        /\ RPopElem(queues[queue_city(users[s].city)]) # s

\* try_match of s decides on the candidate it holds reserved
Validates(s) == pc[s] = "validate" /\ pc'[s] # "validate"

\* the reserved candidate of s fails the validation
FailsValidation(s) ==
    LET c == tm[s].candidate_tg_id IN
    \/ users[c].is_banned
    \/ active_dialogs[c] # NoDialog
    \/ active_dialog[c] # NoDialog
    \/ c = tm[s].last_partner_tg

\* the candidate's lock is released and the scan of s goes on without it
ReleasedAndPassedOver(s) ==
    LET c == tm[s].candidate_tg_id IN
    /\ ~lock_match'[c]
    /\ \A u \in Users \ {c} : lock_match'[u] = lock_match[u]
    /\ tm'[s].partner_info # c
    /\ tm'[s].best_candidate_tg # c
    /\ tm'[s].partner_lock_key = NoUser
    /\ ~tm'[s].raised \/ tm'[s].partner_info = tm[s].best_candidate_tg

\* the candidate is at the left end of the queue it was popped from again,
\* and nothing else in the queues has changed
PushedBack(s) ==
    queues' = [queues EXCEPT ![tm[s].source_queue] = <<tm[s].candidate_tg_id>> \o @]

\* C22: when the reserved candidate is banned, has an ActiveDialog row,
\* holds an active-dialog pointer or is the searcher's last partner, its
\* lock is released, it is pushed back to the queue it was popped from,
\* and the scan goes on without it.
C22_FailedCandidateRestored ==
    [][\A s \in Users :
          Validates(s) /\ FailsValidation(s) =>
              ReleasedAndPassedOver(s) /\ PushedBack(s)]_vars

\* C22 as the code has it: a banned candidate who is not the searcher's last
\* partner has its lock released and is left out of the queue it was popped
\* from; every other failed candidate is pushed back to that queue.
C22_FailedCandidateRestoredUnlessBanned ==
    [][\A s \in Users :
          Validates(s) /\ FailsValidation(s) =>
              /\ ReleasedAndPassedOver(s)
              /\ IF users[tm[s].candidate_tg_id].is_banned
                        /\ tm[s].candidate_tg_id # tm[s].last_partner_tg
                 THEN UNCHANGED queues
                 ELSE PushedBack(s)]_vars

\* a search is in a later round, its first candidate having failed: its
\* last partner waits in a queue with the lock released, and the banned user
\* is in no queue
C22_PassedOver ==
    \E s \in Users : \E b \in Users :
        /\ pc[s] = "attempt"
        /\ tm[s].attempt > 0
        /\ tm[s].last_partner_tg # NoUser
        /\ InSomeQueue(queues, tm[s].last_partner_tg)
        /\ ~lock_match[tm[s].last_partner_tg]
        /\ users[b].is_banned /\ ~InSomeQueue(queues, b)

\* the greater of two ratings
Higher(a, b) == IF a >= b THEN a ELSE b

\* the premium scan of s accepts the candidate it holds reserved
Samples(s) == Validates(s) /\ users[s].premium /\ ~FailsValidation(s)

\* _attempt_match of s settles on a partner
Chooses(s) == tm[s].partner_info = NoUser /\ tm'[s].partner_info # NoUser

\* C23: in the scan of a premium searcher the candidate kept after each
\* validated candidate is one whose season chat rating is the highest of
\* those validated so far in the rounds of the group, the rounds are at most
\* MaxAttempts (for the 50 of the code), and the partner the scan settles on
\* is the candidate kept.
C23_PremiumTakesHighest ==
    [][\A s \in Users :
          /\ (pc[s] = "check" /\ pc'[s] = "attempt") =>
                 tm'[s].best_candidate_tg = NoUser /\ tm'[s].best_rating < 0
          /\ (tm[s].group = "city" /\ tm'[s].group = "global") =>
                 tm'[s].best_candidate_tg = NoUser /\ tm'[s].best_rating < 0
          /\ Samples(s) =>
                 LET c == tm[s].candidate_tg_id IN
                 /\ tm'[s].best_rating =
                        Higher(tm[s].best_rating, users[c].season_rating_chat)
                 /\ tm'[s].best_candidate_tg \in {c, tm[s].best_candidate_tg}
                 /\ tm'[s].best_candidate_tg = c =>
                        users[c].season_rating_chat = tm'[s].best_rating
                 /\ tm'[s].best_candidate_tg # c =>
                        tm'[s].best_rating = tm[s].best_rating
          /\ (Validates(s) /\ FailsValidation(s)) =>
                 /\ tm'[s].best_candidate_tg = tm[s].best_candidate_tg
                 /\ tm'[s].best_rating = tm[s].best_rating
          /\ pc[s] = "attempt" => tm[s].attempt < MaxAttempts
          /\ (users[s].premium /\ Chooses(s)) =>
                 /\ tm[s].best_candidate_tg # NoUser \/ tm'[s].best_candidate_tg # NoUser
                 /\ tm'[s].partner_info = tm'[s].best_candidate_tg]_vars

\* a premium scan has used all its rounds and settled on a partner, and a
\* user with a lower season chat rating, who is not banned, is back in a
\* queue with the lock released
C23_LowerPassedOver ==
    \E s \in Users : \E c \in Users \ {s} :
        /\ users[s].premium
        /\ tm[s].attempt = MaxAttempts
        /\ tm[s].partner_info # NoUser
        /\ c # tm[s].partner_info
        /\ ~users[c].is_banned
        /\ users[c].season_rating_chat < users[tm[s].partner_info].season_rating_chat
        /\ InSomeQueue(queues, c)
        /\ ~lock_match[c]
        /\ pc[c] = "idle"

\* The queue of the group scanned by s that lists users of the subscription
\* state of b: enqueue puts a subscriber into the premium queues only and
\* every other user into the plain queues only, so this is the queue from
\* which the scan reserved b.
ReservedFrom(s, b) ==
    IF tm[s].group = "city"
    THEN (IF users[b].premium THEN queue_premium_city(users[s].city)
                              ELSE queue_city(users[s].city))
    ELSE (IF users[b].premium THEN queue_premium_global ELSE queue_global)

\* C24: when a premium scan has validated a candidate, the candidate that
\* is not kept - the one kept before, when the new one is rated higher, or
\* else the new one - is at the left end of the queue it was reserved from
\* again, nothing else in the queues has changed, and its lock is released.
C24_PassedOverReturnedToItsQueue ==
    [][\A s \in Users :
          Samples(s) =>
              LET c == tm[s].candidate_tg_id
                  b == tm[s].best_candidate_tg
              IN  IF tm'[s].best_candidate_tg = c
                  THEN IF b # NoUser
                       THEN /\ queues' = [queues EXCEPT ![ReservedFrom(s, b)] = <<b>> \o @]
                            /\ ~lock_match'[b]
                       ELSE UNCHANGED queues
                  ELSE /\ queues' = [queues EXCEPT ![tm[s].source_queue] = <<c>> \o @]
                       /\ tm[s].source_queue = ReservedFrom(s, c)
                       /\ ~lock_match'[c]]_vars

\* the lock of u is held by a try_match other than that of s: u's own
\* search, or a search that holds u as reserved candidate or as kept best
HeldByAnother(s, u) ==
    \/ u # s /\ pc[u] # "idle"
    \/ \E o \in Users \ {s} :
          /\ pc[o] # "idle"
          /\ u \in {tm[o].candidate_tg_id, tm[o].best_candidate_tg, tm[o].partner_lock_key}

\* C25: when try_match of s returns - with a match, without one or with an
\* error - the lock of s is released and so is the lock of every candidate
\* it reserved: every lock still set is held by another try_match.  (No
\* lock expires in the behaviours this is checked in.)
C25_NoLockLeftBehind ==
    [][\A s \in Users :
          Ends(s) =>
              /\ ~lock_match'[s]
              /\ \A u \in Users : lock_match'[u] => HeldByAnother(s, u)]_vars

\* try_match of s returns after its scans have found no partner
EndsUnmatched(s) ==
    Ends(s) /\ tm[s].group # "" /\ tm[s].partner_info = NoUser /\ ~tm[s].raised

\* s waits in the plain queues of its profile
WaitsInPlainQueues(Q, s) ==
    /\ InQueue(Q, queue_global, s)
    /\ users[s].city # "" => InQueue(Q, queue_city(users[s].city), s)

\* s waits in the premium queues of its profile
WaitsInPremiumQueues(Q, s) ==
    /\ InQueue(Q, queue_premium_global, s)
    /\ users[s].city # "" => InQueue(Q, queue_premium_city(users[s].city), s)

\* C26: when try_match of s returns after its scans have found no partner,
\* s is in the global queue and, with a city, in the queue of the city; a
\* premium s is in the premium global queue and, with a city, in the
\* premium queue of the city as well; and the lock of s is released.
C26_UnmatchedSearcherWaits ==
    [][\A s \in Users :
          EndsUnmatched(s) =>
              /\ WaitsInPlainQueues(queues', s)
              /\ users[s].premium => WaitsInPremiumQueues(queues', s)
              /\ ~lock_match'[s]]_vars

-----------------------------------------------------------------------------
\* Expiry

\* C28: a lock that is set - by a try_match that goes on, or by one that
\* the process stopped in - is released or expires, and a bundle that is set
\* is cleared or expires: every user is again without lock, so that a search
\* of theirs gets past line 106 and the reservation script can take them,
\* and again without bundle.
C28_NothingHeldForever ==
    \A u \in Users :
        /\ lock_match[u] ~> ~lock_match[u]
        /\ (pending_rating[u] # NoPending) ~> (pending_rating[u] = NoPending)

\* the process has stopped in a try_match: no try_match is running, a lock
\* is set, and a user has a bundle nobody answers
C28_LeftBehind ==
    /\ \A s \in Users : pc[s] = "idle"
    /\ \E u \in Users : lock_match[u]
    /\ \E u \in Users : pending_rating[u] # NoPending

\* a termination request of u is accepted: dialog_finish_text finds the
\* dialog and goes on to finish it
CanTerminate(u) == ENABLED Fin_Start(u, "end")

\* a search of u gets past the check of the searcher's ActiveDialog row
CanSearch(u) == active_dialogs[u] = NoDialog

\* C29: a user who has an ActiveDialog row, whatever the state of the
\* active-dialog pointer, and whose termination handler is not running can
\* terminate the dialog (after which the row is gone and a search gets
\* past line 110): no user is unable both to terminate and to search.
C29_DurableRowDecides ==
    \A u \in Users :
        fpc[u] = "idle" => CanTerminate(u) \/ CanSearch(u)

-----------------------------------------------------------------------------
\* The searcher's lock

\* try_match is called for s
Called(s) == searches'[s] = searches[s] + 1

\* C30: a try_match that is called for s while the lock of s is set - by a
\* running try_match of s, or by a search that holds s reserved - returns
\* at once: no attempt of s starts or changes, and no queue, lock, pointer,
\* key or row changes.
C30_SecondCallChangesNothing ==
    [][\A s \in Users :
          Called(s) /\ lock_match[s] =>
              UNCHANGED <<users, dialogs, active_dialogs, clock, queues, lock_match, lock_owner,
                          active_dialog, last_partner, cooldown, pending_rating,
                          appearance_rating_required, pc, tm, fpc, fin, ratings, rpc,
                          rt, resumed, alerts, photo,
                          dialog_sender_human_detected>>]_vars

\* the second call for s has been made while the first had taken the lock
\* and not yet dequeued s: nobody else has searched, and s is not waiting as
\* it would after a first call that had ended
C30_CalledWhileRunning ==
    \E s \in Users :
        /\ pc[s] = "check"
        /\ lock_match[s]
        /\ searches[s] = 2
        /\ ~InSomeQueue(queues, s)
        /\ \A o \in Users \ {s} : searches[o] = 0

-----------------------------------------------------------------------------
\* The searcher and the reserved candidate

\* C31: the two users of every Dialog row differ, and no try_match holds its
\* own searcher as reserved candidate, as kept best candidate or as partner,
\* also when the searcher has been put back into a queue it scans.
C31_NeverOwnPartner ==
    /\ \A d \in 1..Len(dialogs) : dialogs[d].user1_id # dialogs[d].user2_id
    /\ \A s \in Users :
          /\ tm[s].candidate_tg_id # s
          /\ tm[s].best_candidate_tg # s
          /\ tm[s].partner_info # s

\* user 2 has scanned the queue of their city, in which they are listed
\* again since the search of user 1 put them back, and has reserved nobody
C31_ListedWhileScanning ==
    /\ pc[2] = "attempt"
    /\ tm[2].group = "global"
    /\ tm[2].candidate_tg_id = NoUser
    /\ InQueue(queues, queue_city(users[2].city), 2)
    /\ pc[1] = "finally"
    /\ tm[1].best_candidate_tg = 3

-----------------------------------------------------------------------------
\* The appearance step

\* C32: a bundle that requires the appearance step names a dialog in which
\* a human was detected in a photo of the other participant.
C32_AppearanceOnlyAfterPartnersPhoto ==
    \A u \in Users :
        pending_rating[u] # NoPending /\ pending_rating[u].has_photos = "1" =>
            <<pending_rating[u].dialog, Partner(pending_rating[u].dialog, u)>>
                \in dialog_sender_human_detected

\* dialog 2 is terminated; a human was detected in a photo of user 1 in it
\* and in none of user 2, and user 1 carries the flag of dialog 1: the
\* bundle of user 2 requires the appearance step, that of user 1 does not
C32_OnlyTheReceiverRates ==
    /\ <<1, 1>> \in appearance_rating_required
    /\ <<2, 1>> \in dialog_sender_human_detected
    /\ <<2, 2>> \notin dialog_sender_human_detected
    /\ pending_rating[1] # NoPending /\ pending_rating[1].dialog = 2
    /\ pending_rating[1].has_photos = "0"
    /\ pending_rating[2] # NoPending /\ pending_rating[2].has_photos = "1"

-----------------------------------------------------------------------------
\* The reservation script

\* how often u is listed in the list s
RECURSIVE Count(_, _)
Count(s, u) == IF s = <<>> THEN 0 ELSE (IF Head(s) = u THEN 1 ELSE 0) + Count(Tail(s), u)

\* the lists that try_match passes to the script
QueueLists ==
    {_queues_for_user(city, premium)[g] : city \in {"", "c"}, premium \in BOOLEAN, g \in 1..2}

\* from Q to Q1 one entry of c has left the queue q, and nothing else has
\* entered or left any queue
OneRemoved(Q, Q1, q, c) ==
    \A x \in QueueNames : \A u \in Users :
        Count(Q1[x], u) = Count(Q[x], u) - (IF x = q /\ u = c THEN 1 ELSE 0)

\* C33: whatever the queues, locks and pointers, and for every searcher and
\* list of queues: a script that returns ACTIVE or NONE sets no lock and
\* leaves every queue with the entries it had; a script that returns OK has
\* removed one entry of the candidate from one of the queues passed, the
\* candidate is not the searcher and has no pointer, and the lock of the
\* candidate, which was not set, is the one lock that is set now.
C33_ReserveEffect ==
    \A me \in Users : \A argv \in QueueLists :
        LET reserved == MATCH_RESERVE_LUA(me, argv, queues, lock_match, active_dialog)
            c == reserved.candidate
        IN  IF reserved.status = "OK"
            THEN /\ c \in Users \ {me}
                 /\ active_dialog[c] = NoDialog
                 /\ ~lock_match[c]
                 /\ reserved.locks = [lock_match EXCEPT ![c] = TRUE]
                 /\ \E i \in 1..Len(argv) : argv[i] = reserved.q
                 /\ OneRemoved(queues, reserved.queues, reserved.q, c)
            ELSE /\ reserved.status \in {"ACTIVE", "NONE"}
                 /\ reserved.locks = lock_match
                 /\ OneRemoved(queues, reserved.queues, "", NoUser)

\* user 3 is about to run the script: it passes over subscriber 1, who
\* waits in the premium queue of the city and has a pointer, and takes
\* user 2, whose pointer has expired, from the plain queue of the city
C33_TakenFromSecondQueue ==
    /\ pc[3] = "attempt"
    /\ tm[3].group = "city"
    /\ InQueue(queues, queue_premium_city("c"), 1)
    /\ active_dialog[1] # NoDialog
    /\ LET reserved == MATCH_RESERVE_LUA(3, FromQueues(3), queues, lock_match, active_dialog)
       IN  /\ reserved.status = "OK"
           /\ reserved.candidate = 2
           /\ reserved.q = queue_city("c")

-----------------------------------------------------------------------------
\* Termination and newer dialogs

\* a step of the termination that u runs
Finishes(u) == fpc[u] \in {"db", "redis"} /\ fpc'[u] # fpc[u]

\* C34: a step of the termination of dialog d leaves alone the
\* active_dialogs row and the pointer of every user that name another
\* dialog, and gives no bundle of d to a user whose row or pointer names
\* another dialog.
C34_OnlyItsOwnDialog ==
    [][\A u \in Users :
          Finishes(u) =>
              LET d == fin[u].dialog_id
              IN  \A x \in Users :
                      /\ active_dialogs[x] \notin {NoDialog, d} =>
                              /\ active_dialogs'[x] = active_dialogs[x]
                              /\ pending_rating'[x] = pending_rating[x]
                      /\ active_dialog[x] \notin {NoDialog, d} =>
                              /\ active_dialog'[x] = active_dialog[x]
                              /\ pending_rating'[x] = pending_rating[x]]_vars

-----------------------------------------------------------------------------
\* The order within a queue

\* enqueue, the script and the push-back of try_match put every entry at
\* the left end of a list, so the entries of a list stand in the order of
\* their arrival, the one that has waited longest at the right end

\* the entry of the list s that has waited longest
LongestWaiting(s) == s[Len(s)]

\* the list s without the entry that has waited longest
Others(s) == SubSeq(s, 1, Len(s) - 1)

\* from list s to list s1 the entry that waited longest has been passed
\* over: it has re-entered behind the others
PassedOver(s, s1) == s # <<>> /\ s1 = <<LongestWaiting(s)>> \o Others(s)

\* C35: the script hands out the entry of a queue that has waited longest
\* and leaves the others of that queue as they stand; in every other queue
\* it changes nothing or passes over the entry that has waited longest.  A
\* candidate that try_match puts back enters behind all entries of the
\* queue, which keep their order.
C35_FirstInFirstOut ==
    [][\A s \in Users :
          /\ Reserves(s) =>
                LET q == tm'[s].source_queue
                IN  /\ queues[q] # <<>>
                    /\ tm'[s].candidate_tg_id = LongestWaiting(queues[q])
                    /\ queues'[q] = Others(queues[q])
                    /\ \A x \in QueueNames \ {q} :
                          queues'[x] = queues[x] \/ PassedOver(queues[x], queues'[x])
          /\ ReservesNobody(s) =>
                \A x \in QueueNames :
                    queues'[x] = queues[x] \/ PassedOver(queues[x], queues'[x])
          /\ Validates(s) =>
                \A x \in QueueNames :
                    \/ queues'[x] = queues[x]
                    \/ \E c \in {tm[s].candidate_tg_id, tm[s].best_candidate_tg} \ {NoUser} :
                          queues'[x] = <<c>> \o queues[x]]_vars

\* user 3 has taken the one of users 1 and 2 that had waited longest, found
\* their ActiveDialog row and put them back: they stand behind the other,
\* and user 3 goes on to the next round
C35_PutBackBehind ==
    /\ pc[3] = "attempt"
    /\ tm[3].attempt = 1
    /\ Len(queues[queue_global]) = 2
    /\ queues[queue_global][1] # queues[queue_global][2]
    /\ active_dialog[queues[queue_global][1]] = NoDialog

-----------------------------------------------------------------------------
\* Dialogs and their ActiveDialog rows

\* the users whose ActiveDialog row names dialog d
RowsFor(d) == {u \in Users : active_dialogs[u] = d}

\* C36: a dialog is active exactly when its two participants, and nobody
\* else, have an ActiveDialog row that names it; no row names a finished
\* dialog.
C36_ActiveIffTwoRows ==
    \A d \in 1..Len(dialogs) :
        /\ dialogs[d].status = "active" <=>
               RowsFor(d) = {dialogs[d].user1_id, dialogs[d].user2_id}
        /\ dialogs[d].status = "finished" => RowsFor(d) = {}

-----------------------------------------------------------------------------
\* Whose lock is deleted

\* a step of the try_match of s
Steps(s) == <<pc'[s], tm'[s]>> # <<pc[s], tm[s]>>

\* C37: a lock that a step of try_match deletes was set by that try_match.
C37_DeletesOwnLocksOnly ==
    [][\A s \in Users :
          Steps(s) =>
              \A u \in Users :
                  lock_match[u] /\ ~lock_match'[u] => lock_owner[u] = s]_vars

-----------------------------------------------------------------------------
\* Cancelling a search

\* C38: a user who has cancelled and has not searched since - here: who
\* has not searched at all - is in no queue and in no dialog.
C38_CancelledStaysOut ==
    \A u \in Users :
        resumed[u] = "profile" /\ searches[u] = 0 =>
            /\ ~InSomeQueue(queues, u)
            /\ active_dialogs[u] = NoDialog
            /\ active_dialog[u] = NoDialog

\* C40: a waiting user who has neither searched nor cancelled and whom a
\* search holds as its chosen partner, so past the validation, when it ends
\* without a dialog, is in some queue when that search has ended.
C40_HeldCandidateBackInQueue ==
    [][\A s \in Users : \A c \in Users \ {s} :
          (/\ Ends(s)
           /\ tm[s].dialog_id = NoDialog
           /\ tm[s].partner_info = c
           /\ searches[c] = 0 /\ resumed[c] = "")
              => InSomeQueue(queues', c)]_vars
====
